---- MODULE Spec2Model ----
(***************************************************************************)
(* A model of the sweetpad command line front end:                         *)
(*   - the selection memory (src/src/cli/state.ts, src/src/cli/context.ts) *)
(*   - the smart pickers (pickers.ts, held in src/src/cli/config.ts from   *)
(*     line 88 on) and the interactive picker (src/src/cli/fzf.ts)         *)
(*   - the run pipeline (cli/index.ts, held in src/unnamed/part_001)       *)
(*   - the xcodebuild command builder (src/src/build/runner.ts)            *)
(*                                                                         *)
(* Three specifications share the module:                                  *)
(*   SpecStore  the state.ts functions applied to arbitrary state maps     *)
(*   Spec       one run of the command line, from process start to exit    *)
(*   SpecBuild  buildApp's command assembly                                *)
(*                                                                         *)
(* Strings that the code takes apart (command tokens, destination names)   *)
(* are sequences of atoms: an atom is one of the characters the code       *)
(* looks for ("-", "=", " ") or a run of other characters.                 *)
(***************************************************************************)
EXTENDS Integers, Sequences, FiniteSets, TLC

VARIABLES
    \* ---- SpecStore: state.ts on its own
    s_pc,          \* "mem" | "saved" | "loaded"
    s_state,       \* the StateMap held by the caller
    s_file,        \* cli-state.json under the storage path
    s_saved,       \* the map handed to the last saveState
    s_loaded,      \* the result of the last loadState
    s_sets         \* number of set/remove calls made so far

storeVars == <<s_pc, s_state, s_file, s_saved, s_loaded, s_sets>>

VARIABLES
    \* ---- SpecBuild: buildApp's command assembly
    b_pc,          \* "start" | "structured" | "merged" | "built" | "executed" | "failed"
    b_in,          \* what buildApp reads: options and configuration
    command,       \* the XcodeCommandBuilder
    b_parts        \* commandParts, the vector handed to terminal.execute

buildVars == <<b_pc, b_in, command, b_parts>>

VARIABLES
    \* ---- Spec: one run of the command line
    pc,            \* "start" | "xcworkspace" | "scheme" | "configuration" |
                   \* "destination" | "save" | "execute" | "done" | "failed"
    file0,         \* cli-state.json as it was at process start
    runtime,       \* the CliRuntimeContext, with cli-state.json as it is now
    step,          \* the decision point settled last: inputs and result
    explicitAt,    \* decision points given on the command line or in the configuration
    picked,        \* key -> what was chosen in fzf for it
    flushed,       \* savePersistentState has returned
    exitCode,      \* process.exitCode
    stderr,        \* what was written to process.stderr
    stdout         \* what the launch on a device wrote to process.stdout

runVars == <<pc, file0, runtime, step, explicitAt, picked, flushed,
             exitCode, stderr, stdout>>

VARIABLES
    \* ---- SpecShare: two invocations and the directories they store in
    v_pc,          \* per invocation: "start" | "run" | "exited"
    v_root,        \* per invocation: the workspace root it runs against
    v_path,        \* per invocation: its storagePath
    v_ctx,         \* per invocation: its CliRuntimeContext
    v_loaded,      \* per invocation: the map loadState gave to create
    v_seen,        \* per invocation: state file writes made before it loaded
    v_n,           \* per invocation: set/remove calls made so far
    disk0,         \* the state files at the start, by storage path
    disk,          \* the state files now, by storage path
    readonly,      \* the workspace roots in which .sweetpad cannot be created
    writers        \* the invocations that wrote a state file, in order

shareVars == <<v_pc, v_root, v_path, v_ctx, v_loaded, v_seen, v_n,
               disk0, disk, readonly, writers>>

VARIABLES
    \* ---- SpecAgain: a run and the run that follows it, same flags and project
    a_pc,          \* "start" | the four decision points | "save" | "saved" | "failed"
    a_run,         \* 1 for the first run, 2 for the one that follows
    a_env,         \* the flags, and what the project and the host enumerate
    a_ctx,         \* the CliRuntimeContext of the current run, with cli-state.json
    a_shown,       \* decision points of the current run that showed the picker
    a_res,         \* what the current run resolved, by decision point
    a_first        \* a_res and a_shown of the first run, once it has ended

againVars == <<a_pc, a_run, a_env, a_ctx, a_shown, a_res, a_first>>

VARIABLES
    \* ---- SpecHeap: state maps as objects, with the references held to them
    h_heap,        \* the StateMap objects allocated so far; the index is the identity
    h_ref,         \* the object the field persistentState refers to
    h_last,        \* the last call: its arguments, the heap before it, its result
    h_n            \* set/remove calls made so far

heapVars == <<h_heap, h_ref, h_last, h_n>>

VARIABLES
    \* ---- SpecSeq: the awaits of run, with the life of each fzf child
    q_started,     \* the steps of run that have been started
    q_produced,    \* the steps whose await has returned a value
    q_active,      \* the decision points whose fzf child is spawned and not closed
    q_failed,      \* an await has thrown: run is over
    q_log          \* what happened so far, in order

seqVars == <<q_started, q_produced, q_active, q_failed, q_log>>

VARIABLES
    \* ---- SpecPart: the destinations of one enumeration and their partition
    p_pc,           \* "idle" | "listed" | "split" | "offered" | "failed"
    p_destinations, \* what listDestinations returned
    p_platforms,    \* buildSettings?.supportedPlatforms
    p_split,        \* the pair supported / unsupported
    p_items         \* the items handed to fzfPick

partVars == <<p_pc, p_destinations, p_platforms, p_split, p_items>>

VARIABLES
    \* ---- SpecList: one call of listDestinations and the check that follows it
    l_pc,           \* "idle" | "start" | "listed" | "offered" | "failed"
    l_simulators,   \* what simulatorsManager.getSimulators returns
    l_devices,      \* deviceOutput.result.devices
    l_check,        \* how checkUnreachable ends: "throws" | "returns"
    l_platforms,    \* buildSettings?.supportedPlatforms
    l_destinations, \* the list returned
    l_error         \* the message thrown, "" if none

listVars == <<l_pc, l_simulators, l_devices, l_check, l_platforms, l_destinations, l_error>>

VARIABLES
    \* ---- SpecHook: one call of buildApp
    k_pc,           \* "idle" | "assembled" | "executing" | "executed" | "done" | "failed"
    k_hook,         \* runtime.onBuildCompleted is defined
    k_log           \* what happened so far, in order

hookVars == <<k_pc, k_hook, k_log>>

VARIABLES
    \* ---- SpecSim: one call of runOniOSSimulator
    m_pc,           \* "idle" | "lookup" | "boot" | "booted" | "open" | "install" | "launch" | "done" | "failed"
    m_sim,          \* the simulator: isBooted as listed when it was chosen, and now
    m_isBooted,     \* simulator.isBooted of the simulator looked up
    m_hook,         \* runtime.onSimulatorBooted is defined
    m_log           \* what happened so far, in order

simVars == <<m_pc, m_sim, m_isBooted, m_hook, m_log>>

vars == <<storeVars, buildVars, runVars, shareVars, againVars, heapVars, seqVars, partVars, listVars, hookVars, simVars>>

(***************************************************************************)
(* Bounds                                                                  *)
(***************************************************************************)
\* set/remove calls applied in one SpecStore behaviour
MaxSets == 2

\* length of the additional token list (build.args) in SpecBuild
MaxArgs == 2

\* options one enumeration reports in Spec (schemes, configurations, workspace
\* files; simulators and devices next to the Mac)
MaxOptions == 2

(***************************************************************************)
(* JSON values and the text JSON.stringify / JSON.parse exchange           *)
(***************************************************************************)
Quote == "\""

Str(s) == [t |-> "str", v |-> s]

JsonTrue == [t |-> "bool", v |-> "true"]

JsonNull == [t |-> "null", v |-> "null"]

JsonNum(n) == [t |-> "num", v |-> n]

Numerals == {"0", "1"}

\* the literal JSON.stringify writes for one value (state.ts:24)
StringifyValue(val) ==
    IF val.t = "str" THEN <<Quote, val.v, Quote>> ELSE <<val.v>>

\* does JSON.parse accept the literal (state.ts:12)
ValidLiteral(lit) ==
    \/ Len(lit) = 3 /\ lit[1] = Quote /\ lit[3] = Quote
    \/ Len(lit) = 1 /\ lit[1] \in {"true", "false", "null"} \cup Numerals

\* the value JSON.parse reads from an accepted literal (state.ts:12)
ParseValue(lit) ==
    IF Len(lit) = 3 THEN Str(lit[2])
    ELSE IF lit[1] \in {"true", "false"} THEN [t |-> "bool", v |-> lit[1]]
    ELSE IF lit[1] = "null" THEN JsonNull
    ELSE JsonNum(lit[1])

\* type StateMap = Record<string, unknown> (state.ts:4); {} is the empty map
EmptyMap == [k \in {} |-> JsonNull]

\* the order in which an object's keys are written
KeyOrder ==
    <<"cli.xcworkspace", "cli.scheme", "cli.configuration",
      "cli.destination.id", "editor.theme">>

RECURSIVE StringifyFrom(_, _)
StringifyFrom(state, i) ==
    IF i > Len(KeyOrder) THEN <<>>
    ELSE IF KeyOrder[i] \in DOMAIN state
         THEN <<[key |-> KeyOrder[i], lit |-> StringifyValue(state[KeyOrder[i]])]>>
              \o StringifyFrom(state, i + 1)
         ELSE StringifyFrom(state, i + 1)

\* JSON.stringify(state, null, 2): one member per own key (state.ts:24)
JSONstringify(state) == StringifyFrom(state, 1)

\* JSON.parse throws on any malformed member (state.ts:12)
ParseFails(text) == \E i \in 1..Len(text) : ~ValidLiteral(text[i].lit)

RECURSIVE ParseMembers(_, _)
ParseMembers(text, n) ==
    IF n = 0 THEN EmptyMap
    ELSE LET before == ParseMembers(text, n - 1)
             m == text[n]
         IN  [k \in DOMAIN before \cup {m.key} |->
                 IF k = m.key THEN ParseValue(m.lit) ELSE before[k]]

\* JSON.parse(content): a repeated key keeps its last member (state.ts:12)
JSONparse(text) == ParseMembers(text, Len(text))

NoFile == [exists |-> FALSE, text |-> <<>>]

FileOf(text) == [exists |-> TRUE, text |-> text]

\* a state file JSON.parse rejects: an unterminated string
CorruptFile == FileOf(<<[key |-> "cli.scheme", lit |-> <<Quote>>]>>)

(***************************************************************************)
(* state.ts                                                                *)
(***************************************************************************)
\* a loadState that takes a file it cannot parse for an empty one
loadStateForgiving(file) ==
    IF ~file.exists THEN [ok |-> TRUE, state |-> EmptyMap]
    ELSE IF ParseFails(file.text) THEN [ok |-> TRUE, state |-> EmptyMap]
    ELSE [ok |-> TRUE, state |-> JSONparse(file.text)]

\* loadState: ENOENT gives {}, any other failure is rethrown
loadState(file) ==
    IF ~file.exists THEN [ok |-> TRUE, state |-> EmptyMap]
    ELSE IF ParseFails(file.text) THEN [ok |-> FALSE, state |-> EmptyMap]
    ELSE [ok |-> TRUE, state |-> JSONparse(file.text)]

\* a saveState that writes String(value) for each value instead of JSON
saveStateUnquoted(file, state) ==
    FileOf([i \in 1..Len(JSONstringify(state)) |->
              [key |-> JSONstringify(state)[i].key,
               lit |-> <<state[JSONstringify(state)[i].key].v>>]])

\* a saveState that keeps the members of the file it overwrites
saveStateMerging(file, state) ==
    FileOf(JSONstringify(
        [k \in DOMAIN loadState(file).state \cup DOMAIN state |->
            IF k \in DOMAIN state THEN state[k] ELSE loadState(file).state[k]]))

\* a setRememberedValue that starts a new map instead of spreading the old one
setRememberedValueAlone(state, key, value) == [k \in {key} |-> value]

\* saveState: mkdir -p, then writeFile replaces the whole content
saveState(file, state) == FileOf(JSONstringify(state))

getRememberedValue(state, key) ==
    IF key \in DOMAIN state THEN state[key] ELSE [t |-> "undefined", v |-> ""]

setRememberedValue(state, key, value) ==
    [k \in DOMAIN state \cup {key} |-> IF k = key THEN value ELSE state[k]]

removeRememberedValue(state, key) ==
    [k \in DOMAIN state \ {key} |-> state[k]]

\* a setRememberedValue that assigns state[key] = value and returns state
setRememberedValueInPlace(heap, state, key, value) ==
    [heap |-> [heap EXCEPT ![state] = setRememberedValue(@, key, value)],
     ref |-> state]

\* setRememberedValue (state.ts:31-36) on objects: the object literal
\* { ...state, [key]: value } is a new object, state is only read
setRememberedValueObj(heap, state, key, value) ==
    [heap |-> Append(heap, setRememberedValue(heap[state], key, value)),
     ref |-> Len(heap) + 1]

\* removeRememberedValue (state.ts:38-42) on objects: newState = { ...state }
\* is a new object, and the delete is applied to it
removeRememberedValueObj(heap, state, key) ==
    [heap |-> Append(heap, removeRememberedValue(heap[state], key)),
     ref |-> Len(heap) + 1]


(***************************************************************************)
(* Strings as sequences of atoms                                           *)
(***************************************************************************)
\* current.startsWith("-")
startsWithDash(s) == Len(s) > 0 /\ s[1] = "-"

\* current.includes("=")
includesEq(s) == \E i \in 1..Len(s) : s[i] = "="

\* index of the first "=" at or after i, or Len(s) + 1
RECURSIVE NextEq(_, _)
NextEq(s, i) ==
    IF i > Len(s) \/ s[i] = "=" THEN i ELSE NextEq(s, i + 1)

\* current.split("="): every piece between two "="
RECURSIVE splitEq(_)
splitEq(s) ==
    LET e == NextEq(s, 1)
    IN  IF e > Len(s) THEN <<s>>
        ELSE <<SubSeq(s, 1, e - 1)>> \o splitEq(SubSeq(s, e + 1, Len(s)))

RECURSIVE Reverse(_)
Reverse(s) == IF s = <<>> THEN <<>> ELSE Reverse(Tail(s)) \o <<Head(s)>>

\* .filter with a seen-set: keep s[i] when keys[i] was not met before
RECURSIVE FilterFirstSeen(_, _, _)
FilterFirstSeen(s, keys, seen) ==
    IF s = <<>> THEN <<>>
    ELSE IF Head(keys) \in seen
         THEN FilterFirstSeen(Tail(s), Tail(keys), seen)
         ELSE <<Head(s)>>
              \o FilterFirstSeen(Tail(s), Tail(keys), seen \cup {Head(keys)})

(***************************************************************************)
(* XcodeCommandBuilder (runner.ts:402-528)                                 *)
(***************************************************************************)
(* Optional values, paths and destinations                                 *)
(***************************************************************************)
\* undefined, and a defined value
Undef == <<>>

Def(value) == <<value>>

IsDef(opt) == Len(opt) = 1

\* a ?? b
Coalesce(a, b) == IF IsDef(a) THEN a ELSE b

\* process.cwd(), or --workspace-root, resolved (part_001:282)
WorkspacePath == <<"/", "ws">>

\* path.isAbsolute(rawPath)
isAbsolute(p) == Len(p) > 0 /\ p[1] = "/"

\* path.join(workspacePath, rawPath)
pathJoin(a, b) == a \o b

\* String.prototype.toLowerCase on the atoms in use
LowerAtom(a) ==
    CASE a = "iPhone" -> "iphone"
      [] a = "Pro" -> "pro"
      [] a = "My" -> "my"
      [] a = "Mac" -> "mac"
      [] a = "AAA" -> "aaa"
      [] a = "BBB" -> "bbb"
      [] a = "CCC" -> "ccc"
      [] OTHER -> a

toLowerCase(s) == [i \in 1..Len(s) |-> LowerAtom(s[i])]

\* String.prototype.trim: drops the blanks at both ends
RECURSIVE trimStart(_)
trimStart(s) == IF Len(s) > 0 /\ s[1] = " " THEN trimStart(Tail(s)) ELSE s

trim(s) == Reverse(trimStart(Reverse(trimStart(s))))

\* String.prototype.includes
includes(s, sub) ==
    \E i \in 0..(Len(s) - Len(sub)) : SubSeq(s, i + 1, i + Len(sub)) = sub

\* what the code reads of a Destination: id, udid (absent on the Mac), name,
\* label, platform
MyMac ==
    [id |-> <<"macos">>, hasUdid |-> FALSE, udid |-> <<>>,
     name |-> <<"My", " ", "Mac">>, label |-> <<"My", " ", "Mac">>,
     platform |-> "macosx"]

Sim1 ==
    [id |-> <<"iossimulator-", "AAA">>, hasUdid |-> TRUE, udid |-> <<"AAA">>,
     name |-> <<"iPhone", " ", "15">>, label |-> <<"iPhone", " ", "15">>,
     platform |-> "iphonesimulator"]

Sim2 ==
    [id |-> <<"iossimulator-", "BBB">>, hasUdid |-> TRUE, udid |-> <<"BBB">>,
     name |-> <<"iPhone", " ", "15", " ", "Pro">>,
     label |-> <<"iPhone", " ", "15", " ", "Pro">>,
     platform |-> "iphonesimulator"]

Dev1 ==
    [id |-> <<"iosdevice-", "CCC">>, hasUdid |-> TRUE, udid |-> <<"CCC">>,
     name |-> <<"Huy", " ", "iPad">>, label |-> <<"Huy", " ", "iPad">>,
     platform |-> "iphoneos"]

(***************************************************************************)
(* fzf.ts                                                                  *)
(***************************************************************************)
\* how the spawned fzf ends: not installed, closed with a non-zero code, or
\* closed with code 0 after printing the line of item number n
FzfMissing == -1

FzfAborted == 0

Ok(value, shown) == [ok |-> TRUE, value |-> value, shown |-> shown, error |-> ""]

Err(message, shown) ==
    [ok |-> FALSE, value |-> <<>>, shown |-> shown, error |-> message]

\* an fzfPick without the single-item shortcut: fzf is spawned for one item too
fzfPickAlwaysSpawn(items, outcome) ==
    IF Len(items) = 0 THEN Err("No items available for selection", FALSE)
    ELSE IF outcome = FzfMissing THEN Err("fzf is required but not installed", FALSE)
    ELSE IF outcome = FzfAborted THEN Err("Selection cancelled", TRUE)
    ELSE IF outcome > Len(items) THEN Err("Failed to parse fzf selection", TRUE)
    ELSE Ok(items[outcome], TRUE)

\* fzfPick (fzf.ts:9-58); items holds the values, labels are display only
fzfPick(items, outcome) ==
    IF Len(items) = 0 THEN Err("No items available for selection", FALSE)
    ELSE IF Len(items) = 1 THEN Ok(items[1], FALSE)
    ELSE IF outcome = FzfMissing THEN Err("fzf is required but not installed", FALSE)
    ELSE IF outcome = FzfAborted THEN Err("Selection cancelled", TRUE)
    ELSE IF outcome > Len(items) THEN Err("Failed to parse fzf selection", TRUE)
    ELSE Ok(items[outcome], TRUE)

(***************************************************************************)
(* context.ts: CliRuntimeContext, with the state file it reads and writes  *)
(***************************************************************************)
\* persistentState and stateDirty are the object's fields; file is
\* cli-state.json under storagePath; writes counts the writeFile calls on it
\* and setKeys logs the keys given to setRememberedValue/removeRememberedValue
NewContext(file, persistentState) ==
    [persistentState |-> persistentState, stateDirty |-> FALSE,
     file |-> file, writes |-> 0, setKeys |-> {}]

\* a savePersistentState that writes whether or not the state is dirty
ctxSaveAlways(ctx) ==
    [ctx EXCEPT !.file = saveState(ctx.file, ctx.persistentState),
                !.writes = @ + 1,
                !.stateDirty = FALSE]

\* a savePersistentState that clears the dirty flag without writing
ctxSaveNever(ctx) == [ctx EXCEPT !.stateDirty = FALSE]

\* savePersistentState (context.ts:53-58)
ctxSavePersistentState(ctx) ==
    IF ctx.stateDirty
    THEN [ctx EXCEPT !.file = saveState(ctx.file, ctx.persistentState),
                     !.writes = @ + 1,
                     !.stateDirty = FALSE]
    ELSE ctx

\* getRememberedValue (context.ts:60-62)
ctxGetRememberedValue(ctx, key) == getRememberedValue(ctx.persistentState, key)

\* a setRememberedValue that writes the state file at once
ctxSetAndSave(ctx, key, value) ==
    [ctx EXCEPT !.persistentState = setRememberedValue(@, key, value),
                !.file = saveState(ctx.file, setRememberedValue(ctx.persistentState, key, value)),
                !.writes = @ + 1,
                !.setKeys = @ \cup {key}]

\* a setRememberedValue that forgets to mark the state dirty
ctxSetNotDirty(ctx, key, value) ==
    [ctx EXCEPT !.persistentState = setRememberedValue(@, key, value),
                !.setKeys = @ \cup {key}]

\* setRememberedValue (context.ts:64-67)
ctxSetRememberedValue(ctx, key, value) ==
    [ctx EXCEPT !.persistentState = setRememberedValue(@, key, value),
                !.stateDirty = TRUE,
                !.setKeys = @ \cup {key}]

\* a removeRememberedValue that forgets to mark the state dirty
ctxRemoveNotDirty(ctx, key) ==
    [ctx EXCEPT !.persistentState = removeRememberedValue(@, key),
                !.setKeys = @ \cup {key}]

\* removeRememberedValue (context.ts:69-73)
ctxRemoveRememberedValue(ctx, key) ==
    [ctx EXCEPT !.persistentState = removeRememberedValue(@, key),
                !.stateDirty = TRUE,
                !.setKeys = @ \cup {key}]

\* os.tmpdir()
TmpDir == <<"/", "tmp">>

\* resolveStoragePath (context.ts:113-123); unwritable holds the workspace
\* roots in which createDirectory(".sweetpad") throws
resolveStoragePath(workspacePath, unwritable) ==
    IF workspacePath \in unwritable
    THEN pathJoin(TmpDir, <<"sweetpad">>)
    ELSE pathJoin(workspacePath, <<".sweetpad">>)

\* `remembered && ...`: a remembered string that is not empty
IsRemembered(val) == val.t = "str" /\ Len(val.v) > 0

\* the outcome of one resolution: the picker's result and the context after it
Resolved(pick, ctx, smart) ==
    [ok |-> pick.ok, value |-> pick.value, shown |-> pick.shown,
     error |-> pick.error, ctx |-> ctx, smart |-> smart]

(***************************************************************************)
(* pickers.ts (config.ts:88-446)                                           *)
(***************************************************************************)
DEFAULT_DEBUG_CONFIGURATION == <<"Debug">>

DEFAULT_RELEASE_CONFIGURATION == <<"Release">>

Has(seq, x) == \E i \in 1..Len(seq) : seq[i] = x

\* pickScheme (config.ts:108-131)
pickScheme(schemes, outcome) ==
    IF Len(schemes) = 0 THEN Err("No schemes found", FALSE)
    ELSE IF Len(schemes) = 1 THEN Ok(schemes[1], FALSE)
    ELSE fzfPick(schemes, outcome)

\* a Debug/Release test that looks at the positions instead of the membership
IsDebugReleaseInOrder(configurations) ==
    /\ Len(configurations) = 2
    /\ configurations[1] = DEFAULT_DEBUG_CONFIGURATION
    /\ configurations[2] = DEFAULT_RELEASE_CONFIGURATION

\* configurations.length === 2 with both Debug and Release (config.ts:150-154)
IsDebugReleasePair(configurations) ==
    /\ Len(configurations) = 2
    /\ Has(configurations, DEFAULT_DEBUG_CONFIGURATION)
    /\ Has(configurations, DEFAULT_RELEASE_CONFIGURATION)

\* pickConfiguration (config.ts:133-165)
pickConfiguration(configurations, outcome) ==
    IF Len(configurations) = 0 THEN Ok(DEFAULT_DEBUG_CONFIGURATION, FALSE)
    ELSE IF Len(configurations) = 1 THEN Ok(configurations[1], FALSE)
    ELSE IF IsDebugReleasePair(configurations)
    THEN Ok(DEFAULT_DEBUG_CONFIGURATION, FALSE)
    ELSE fzfPick(configurations, outcome)

\* insert p after the paths that are no deeper (a stable sort by depth)
RECURSIVE insertByDepth(_, _)
insertByDepth(sorted, p) ==
    IF sorted = <<>> THEN <<p>>
    ELSE IF Len(Head(sorted)) <= Len(p)
         THEN <<Head(sorted)>> \o insertByDepth(Tail(sorted), p)
         ELSE <<p>> \o sorted

\* paths.sort by the number of path segments (config.ts:179)
RECURSIVE sortByDepth(_)
sortByDepth(paths) ==
    IF paths = <<>> THEN <<>>
    ELSE insertByDepth(sortByDepth(SubSeq(paths, 1, Len(paths) - 1)),
                       paths[Len(paths)])

\* pickXcodeWorkspacePath (config.ts:167-186)
pickXcodeWorkspacePath(paths, outcome) ==
    IF Len(paths) = 0 THEN Err("No xcode workspaces found", FALSE)
    ELSE IF Len(paths) = 1 THEN Ok(paths[1], FALSE)
    ELSE fzfPick(sortByDepth(paths), outcome)

RECURSIVE SelectSupported(_, _, _)
SelectSupported(destinations, platforms, want) ==
    IF destinations = <<>> THEN <<>>
    ELSE (IF ((platforms = {}) \/ (Head(destinations).platform \in platforms)) = want
          THEN <<Head(destinations)>> ELSE <<>>)
         \o SelectSupported(Tail(destinations), platforms, want)

\* splitSupportedDestinatinos (destination/utils): a destination is supported
\* when its platform is declared, or when nothing is declared; order is kept.
\* supportedPlatforms is Undef or Def(set of platforms)
splitSupportedDestinatinos(destinations, supportedPlatforms) ==
    LET platforms == IF IsDef(supportedPlatforms) THEN supportedPlatforms[1] ELSE {}
    IN  [supported |-> SelectSupported(destinations, platforms, TRUE),
         unsupported |-> SelectSupported(destinations, platforms, FALSE)]

\* items that leave the unsupported destinations out
destinationItemsSupportedOnly(split) ==
    [i \in 1..Len(split.supported) |->
        [label |-> split.supported[i].label, value |-> split.supported[i]]]

\* the items of pickDestination (config.ts:261-270): the supported
\* destinations, then the unsupported ones with their label marked
destinationItems(split) ==
    [i \in 1..Len(split.supported) |->
        [label |-> split.supported[i].label, value |-> split.supported[i]]]
    \o [i \in 1..Len(split.unsupported) |->
        [label |-> split.unsupported[i].label \o <<" ", "[unsupported]">>,
         value |-> split.unsupported[i]]]

\* pickDestination (config.ts:230-276)
pickDestination(destinations, supportedPlatforms, outcome) ==
    LET split == splitSupportedDestinatinos(destinations, supportedPlatforms)
        items == destinationItems(split)
    IN  IF Len(split.supported) = 0 /\ Len(split.unsupported) = 0
        THEN Err("No destinations found", FALSE)
        ELSE fzfPick([i \in 1..Len(items) |-> items[i].value], outcome)

\* a pickSchemeSmart that rejects a remembered scheme that is gone
pickSchemeSmartStrict(ctx, schemes, outcome) ==
    LET remembered == ctxGetRememberedValue(ctx, "cli.scheme")
        selected == pickScheme(schemes, outcome)
    IN  IF Len(schemes) = 0 THEN Resolved(Err("No schemes found", FALSE), ctx, TRUE)
        ELSE IF IsRemembered(remembered) /\ Has(schemes, remembered.v)
        THEN Resolved(Ok(remembered.v, FALSE), ctx, TRUE)
        ELSE IF IsRemembered(remembered)
        THEN Resolved(Err("Remembered scheme not found", FALSE), ctx, TRUE)
        ELSE IF ~selected.ok THEN Resolved(selected, ctx, TRUE)
        ELSE Resolved(selected,
                      ctxSetRememberedValue(ctx, "cli.scheme", Str(selected.value)),
                      TRUE)

\* pickSchemeSmart (config.ts:293-321)
pickSchemeSmart(ctx, schemes, outcome) ==
    LET remembered == ctxGetRememberedValue(ctx, "cli.scheme")
        selected == pickScheme(schemes, outcome)
    IN  IF Len(schemes) = 0 THEN Resolved(Err("No schemes found", FALSE), ctx, TRUE)
        ELSE IF IsRemembered(remembered) /\ Has(schemes, remembered.v)
        THEN Resolved(Ok(remembered.v, FALSE), ctx, TRUE)
        ELSE IF ~selected.ok THEN Resolved(selected, ctx, TRUE)
        ELSE Resolved(selected,
                      ctxSetRememberedValue(ctx, "cli.scheme", Str(selected.value)),
                      TRUE)

\* a pickConfigurationSmart that trusts the remembered configuration when the
\* project reports none
pickConfigurationSmartTrusting(ctx, configurations, outcome) ==
    LET remembered == ctxGetRememberedValue(ctx, "cli.configuration")
        selected == pickConfiguration(configurations, outcome)
    IN  IF Len(configurations) = 0
        THEN Resolved(Ok(IF IsRemembered(remembered) THEN remembered.v
                         ELSE DEFAULT_DEBUG_CONFIGURATION, FALSE), ctx, TRUE)
        ELSE IF Len(configurations) = 1
        THEN Resolved(Ok(configurations[1], FALSE), ctx, TRUE)
        ELSE IF IsDebugReleasePair(configurations)
        THEN Resolved(Ok(DEFAULT_DEBUG_CONFIGURATION, FALSE), ctx, TRUE)
        ELSE IF IsRemembered(remembered) /\ Has(configurations, remembered.v)
        THEN Resolved(Ok(remembered.v, FALSE), ctx, TRUE)
        ELSE IF ~selected.ok THEN Resolved(selected, ctx, TRUE)
        ELSE Resolved(selected,
                      ctxSetRememberedValue(ctx, "cli.configuration", Str(selected.value)),
                      TRUE)

\* pickConfigurationSmart (config.ts:323-362)
pickConfigurationSmart(ctx, configurations, outcome) ==
    LET remembered == ctxGetRememberedValue(ctx, "cli.configuration")
        selected == pickConfiguration(configurations, outcome)
    IN  IF Len(configurations) = 0
        THEN Resolved(Ok(DEFAULT_DEBUG_CONFIGURATION, FALSE), ctx, TRUE)
        ELSE IF Len(configurations) = 1
        THEN Resolved(Ok(configurations[1], FALSE), ctx, TRUE)
        ELSE IF IsDebugReleasePair(configurations)
        THEN Resolved(Ok(DEFAULT_DEBUG_CONFIGURATION, FALSE), ctx, TRUE)
        ELSE IF IsRemembered(remembered) /\ Has(configurations, remembered.v)
        THEN Resolved(Ok(remembered.v, FALSE), ctx, TRUE)
        ELSE IF ~selected.ok THEN Resolved(selected, ctx, TRUE)
        ELSE Resolved(selected,
                      ctxSetRememberedValue(ctx, "cli.configuration", Str(selected.value)),
                      TRUE)

\* pickXcodeWorkspacePathSmart (config.ts:364-385)
pickXcodeWorkspacePathSmart(ctx, paths, outcome) ==
    LET remembered == ctxGetRememberedValue(ctx, "cli.xcworkspace")
        selected == pickXcodeWorkspacePath(paths, outcome)
    IN  IF Len(paths) = 0
        THEN Resolved(Err("No xcode workspaces found", FALSE), ctx, TRUE)
        ELSE IF IsRemembered(remembered) /\ Has(paths, remembered.v)
        THEN Resolved(Ok(remembered.v, FALSE), ctx, TRUE)
        ELSE IF Len(paths) = 1 THEN Resolved(Ok(paths[1], FALSE), ctx, TRUE)
        ELSE IF ~selected.ok THEN Resolved(selected, ctx, TRUE)
        ELSE Resolved(selected,
                      ctxSetRememberedValue(ctx, "cli.xcworkspace", Str(selected.value)),
                      TRUE)

\* a find callback that compares a simulator's udid only
matchesRememberedUdid(d, rememberedId) ==
    IF d.hasUdid THEN d.udid = rememberedId
    ELSE d.id = rememberedId

\* the find callback of pickDestinationSmart (config.ts:423-428)
matchesRemembered(d, rememberedId) ==
    IF d.hasUdid THEN d.udid = rememberedId \/ d.id = rememberedId
    ELSE d.id = rememberedId

\* allDestinations.find(...): the first match, if any
RECURSIVE findRemembered(_, _)
findRemembered(destinations, rememberedId) ==
    IF destinations = <<>> THEN Undef
    ELSE IF matchesRemembered(Head(destinations), rememberedId)
         THEN Def(Head(destinations))
         ELSE findRemembered(Tail(destinations), rememberedId)

\* a pickDestinationSmart that returns the remembered destination from
\* either partition
pickDestinationSmartAnyPartition(ctx, destinations, supportedPlatforms, outcome) ==
    LET rememberedId == ctxGetRememberedValue(ctx, "cli.destination.id")
        split == splitSupportedDestinatinos(destinations, supportedPlatforms)
        allDestinations == split.supported \o split.unsupported
        found == IF IsRemembered(rememberedId)
                 THEN findRemembered(allDestinations, rememberedId.v)
                 ELSE Undef
        selected == pickDestination(destinations, supportedPlatforms, outcome)
    IN  IF Len(allDestinations) = 0
        THEN Resolved(Err("No destinations found", FALSE), ctx, TRUE)
        ELSE IF IsDef(found) THEN Resolved(Ok(found[1], FALSE), ctx, TRUE)
        ELSE IF ~selected.ok THEN Resolved(selected, ctx, TRUE)
        ELSE Resolved(selected,
                      ctxSetRememberedValue(ctx, "cli.destination.id",
                                            Str(selected.value.id)),
                      TRUE)

\* pickDestinationSmart (config.ts:387-446)
pickDestinationSmart(ctx, destinations, supportedPlatforms, outcome) ==
    LET rememberedId == ctxGetRememberedValue(ctx, "cli.destination.id")
        split == splitSupportedDestinatinos(destinations, supportedPlatforms)
        allDestinations == split.supported \o split.unsupported
        found == IF IsRemembered(rememberedId)
                 THEN findRemembered(allDestinations, rememberedId.v)
                 ELSE Undef
        selected == pickDestination(destinations, supportedPlatforms, outcome)
    IN  IF Len(allDestinations) = 0
        THEN Resolved(Err("No destinations found", FALSE), ctx, TRUE)
        ELSE IF IsDef(found) /\ Has(split.supported, found[1])
        THEN Resolved(Ok(found[1], FALSE), ctx, TRUE)
        ELSE IF ~selected.ok THEN Resolved(selected, ctx, TRUE)
        ELSE Resolved(selected,
                      ctxSetRememberedValue(ctx, "cli.destination.id",
                                            Str(selected.value.id)),
                      TRUE)

(***************************************************************************)
(* cli/index.ts (src/unnamed/part_001)                                     *)
(***************************************************************************)
\* `if (rawPath)`, `!options.destinationId`: defined and not the empty string
Truthy(opt) == IsDef(opt) /\ Len(opt[1]) > 0

\* a value taken from the command line or the configuration: no picker, and
\* the context is left as it was
Explicit(pick, ctx) == Resolved(pick, ctx, FALSE)

\* resolveXcworkspace (part_001:172-186)
resolveXcworkspace(ctx, xcworkspace, configPath, paths, outcome) ==
    LET rawPath == Coalesce(xcworkspace, configPath)
    IN  IF Truthy(rawPath)
        THEN Explicit(Ok(IF isAbsolute(rawPath[1]) THEN rawPath[1]
                         ELSE pathJoin(WorkspacePath, rawPath[1]), FALSE), ctx)
        ELSE pickXcodeWorkspacePathSmart(ctx, paths, outcome)

\* options.scheme ?? pickSchemeSmart(...) (part_001:295)
resolveScheme(ctx, scheme, schemes, outcome) ==
    IF IsDef(scheme) THEN Explicit(Ok(scheme[1], FALSE), ctx)
    ELSE pickSchemeSmart(ctx, schemes, outcome)

\* the boolean values, as distinct from the strings "true" and "false"
BooleanTrue == <<"(boolean true)">>

BooleanFalse == <<"(boolean false)">>

\* parseEnvValue (config.ts:10-26), on values that do not start with { or [
parseEnvValue(raw) ==
    LET trimmed == trim(raw)
    IN  IF trimmed = <<"true">> THEN BooleanTrue
        ELSE IF trimmed = <<"false">> THEN BooleanFalse
        ELSE trimmed

\* one entry of the map loadCliConfig returns (config.ts:40-77): the value of
\* the settings file, replaced by the environment value when that is set
loadCliConfigEntry(fileValue, envValue) ==
    IF IsDef(envValue) THEN Def(parseEnvValue(envValue[1])) ELSE fileValue

\* a resolution that reads the configuration map before the command line
resolveConfigurationConfigFirst(ctx, configuration, configValue, configurations, outcome) ==
    LET given == Coalesce(configValue, configuration)
    IN  IF IsDef(given) THEN Explicit(Ok(given[1], FALSE), ctx)
        ELSE pickConfigurationSmart(ctx, configurations, outcome)

\* options.configuration ?? getCliConfig("build.configuration") ??
\* pickConfigurationSmart(...) (part_001:296-299)
resolveConfiguration(ctx, configuration, configValue, configurations, outcome) ==
    LET given == Coalesce(configuration, configValue)
    IN  IF IsDef(given) THEN Explicit(Ok(given[1], FALSE), ctx)
        ELSE pickConfigurationSmart(ctx, configurations, outcome)

\* matchDestinationId (part_001:255-261)
matchDestinationId(destination, id) ==
    LET normalized == toLowerCase(trim(id))
    IN  IF destination.hasUdid
        THEN toLowerCase(destination.udid) = normalized
             \/ toLowerCase(destination.id) = normalized
        ELSE toLowerCase(destination.id) = normalized

\* matchDestinationName (part_001:263-273)
matchDestinationName(destination, name) ==
    LET normalized == toLowerCase(trim(name))
        label == toLowerCase(destination.label)
        destName == toLowerCase(destination.name)
    IN  IF Len(normalized) = 0 THEN FALSE
        ELSE \/ includes(label, normalized)
             \/ includes(destName, normalized)
             \/ includes(toLowerCase(destination.id), normalized)

\* destinations.find(item => matchDestinationId(item, destinationId))
RECURSIVE findById(_, _)
findById(destinations, id) ==
    IF destinations = <<>> THEN Undef
    ELSE IF matchDestinationId(Head(destinations), id) THEN Def(Head(destinations))
    ELSE findById(Tail(destinations), id)

\* destinations.filter(item => matchDestinationName(item, destinationName))
RECURSIVE filterByName(_, _)
filterByName(destinations, name) ==
    IF destinations = <<>> THEN <<>>
    ELSE (IF matchDestinationName(Head(destinations), name)
          THEN <<Head(destinations)>> ELSE <<>>)
         \o filterByName(Tail(destinations), name)

\* resolveDestination (part_001:196-253)
resolveDestination(ctx, destinationId, destinationName, destinations, supportedPlatforms, outcome) ==
    LET found == findById(destinations, destinationId[1])
        matches == filterByName(destinations, destinationName[1])
    IN  IF ~Truthy(destinationId) /\ ~Truthy(destinationName)
        THEN pickDestinationSmart(ctx, destinations, supportedPlatforms, outcome)
        ELSE IF Truthy(destinationId)
        THEN IF IsDef(found) THEN Explicit(Ok(found[1], FALSE), ctx)
             ELSE Explicit(Err("Destination not found for id", FALSE), ctx)
        ELSE IF Len(matches) = 0
        THEN Explicit(Err("Destination not found for name", FALSE), ctx)
        ELSE IF Len(matches) = 1 THEN Explicit(Ok(matches[1], FALSE), ctx)
        ELSE pickDestinationSmart(ctx, destinations, supportedPlatforms, outcome)

\* run().catch (part_001:440-444): what is written to the error stream
ErrorLine(message) == <<"SweetPad CLI error: ", message>>

(***************************************************************************)
NO_VALUE == <<"__NO_VALUE__">>

NewBuilder == [buildSettings |-> <<>>, parameters |-> <<>>, actions |-> <<>>]

addBuildSettings(b, key, value) ==
    [b EXCEPT !.buildSettings = @ \o <<[key |-> key, value |-> value]>>]

addOption(b, flag) ==
    [b EXCEPT !.parameters = @ \o <<[arg |-> flag, value |-> NO_VALUE]>>]

addParameters(b, arg, value) ==
    [b EXCEPT !.parameters = @ \o <<[arg |-> arg, value |-> value]>>]

addAction(b, action) == [b EXCEPT !.actions = @ \o <<action>>]

ActionVerbs == {<<"clean">>, <<"build">>, <<"test">>}

\* the for loop of addAdditionalArgs (runner.ts:443-471), from index i
RECURSIVE scanArgs(_, _, _)
scanArgs(b, args, i) ==
    IF i > Len(args) THEN b
    ELSE LET current == args[i]
             hasNext == i + 1 <= Len(args)
         IN  IF /\ Len(current) > 0
                /\ hasNext /\ Len(args[i + 1]) > 0
                /\ startsWithDash(current)
                /\ ~startsWithDash(args[i + 1])
             THEN scanArgs(addParameters(b, current, args[i + 1]), args, i + 2)
             ELSE IF startsWithDash(current)
             THEN scanArgs(addOption(b, current), args, i + 1)
             ELSE IF includesEq(current)
             THEN scanArgs(addBuildSettings(b, splitEq(current)[1], splitEq(current)[2]),
                           args, i + 1)
             ELSE IF current \in ActionVerbs
             THEN scanArgs(addAction(b, current), args, i + 1)
             ELSE scanArgs(b, args, i + 1)

\* param.arg of every parameter
ArgsOf(ps) == [i \in 1..Len(ps) |-> ps[i].arg]

\* setting.key of every build setting
KeysOf(ss) == [i \in 1..Len(ss) |-> ss[i].key]

\* a dedup that keeps the first declaration of each key
dedupKeepFirst(b) ==
    [buildSettings |-> FilterFirstSeen(b.buildSettings, KeysOf(b.buildSettings), {}),
     parameters |-> FilterFirstSeen(b.parameters, ArgsOf(b.parameters), {}),
     actions |-> FilterFirstSeen(b.actions, b.actions, {})]

\* the three dedup passes of addAdditionalArgs (runner.ts:473-506)
dedup(b) ==
    [buildSettings |->
        Reverse(FilterFirstSeen(Reverse(b.buildSettings),
                                KeysOf(Reverse(b.buildSettings)), {})),
     parameters |->
        Reverse(FilterFirstSeen(Reverse(b.parameters),
                                ArgsOf(Reverse(b.parameters)), {})),
     actions |-> FilterFirstSeen(b.actions, b.actions, {})]

\* current is neither a flag, nor KEY=VALUE, nor an action (runner.ts:465)
IsUnknownArgument(current) ==
    ~startsWithDash(current) /\ ~includesEq(current) /\ current \notin ActionVerbs

\* an addAdditionalArgs that passes unknown arguments on, after the actions
addAdditionalArgsKeepUnknown(b, args) ==
    IF Len(args) = 0 THEN b
    ELSE [dedup(scanArgs(b, args, 1)) EXCEPT
             !.actions = @ \o SelectSeq(args, IsUnknownArgument)]

\* addAdditionalArgs (runner.ts:438-507): nothing is done for an empty list
addAdditionalArgs(b, args) ==
    IF Len(args) = 0 THEN b ELSE dedup(scanArgs(b, args, 1))

RECURSIVE renderSettings(_)
renderSettings(s) ==
    IF s = <<>> THEN <<>>
    ELSE <<Head(s).key \o <<"=">> \o Head(s).value>> \o renderSettings(Tail(s))

RECURSIVE renderParameters(_)
renderParameters(s) ==
    IF s = <<>> THEN <<>>
    ELSE (IF Head(s).value # NO_VALUE THEN <<Head(s).arg, Head(s).value>>
          ELSE <<Head(s).arg>>)
         \o renderParameters(Tail(s))

\* a build() that pushes the actions before the settings and the parameters
buildActionsFirst(b) ==
    <<(<<"xcodebuild">>)>> \o b.actions \o renderSettings(b.buildSettings)
        \o renderParameters(b.parameters)

\* a build() that pushes every parameter's value, without the sentinel test
buildEveryValue(b) ==
    <<(<<"xcodebuild">>)>> \o renderSettings(b.buildSettings)
        \o [i \in 1..(2 * Len(b.parameters)) |->
              IF i % 2 = 1 THEN b.parameters[(i + 1) \div 2].arg
              ELSE b.parameters[i \div 2].value]
        \o b.actions

\* build() (runner.ts:509-527)
build(b) ==
    <<(<<"xcodebuild">>)>> \o renderSettings(b.buildSettings)
        \o renderParameters(b.parameters) \o b.actions

(***************************************************************************)
(* buildApp (runner.ts:530-617)                                            *)
(***************************************************************************)
\* runner.ts:555-587: the structured settings, parameters and actions
structuredCommand(in) ==
    LET c0 == NewBuilder
        c1 == IF Len(in.arch) > 0
              THEN addBuildSettings(
                     addBuildSettings(
                       addBuildSettings(c0, <<"ARCHS">>, in.arch),
                       <<"VALID_ARCHS">>, in.arch),
                     <<"ONLY_ACTIVE_ARCH">>, <<"NO">>)
              ELSE c0
        c2 == IF in.debug
              THEN addBuildSettings(
                     addBuildSettings(c1, <<"GCC_GENERATE_DEBUGGING_SYMBOLS">>, <<"YES">>),
                     <<"ONLY_ACTIVE_ARCH">>, <<"YES">>)
              ELSE c1
        c3 == addParameters(
                addParameters(
                  addParameters(
                    addParameters(
                      addParameters(c2, <<"-", "scheme">>, in.scheme),
                      <<"-", "configuration">>, in.configuration),
                    <<"-", "workspace">>, in.xcworkspace),
                  <<"-", "destination">>, in.destinationRaw),
                <<"-", "resultBundlePath">>, in.bundlePath)
        c4 == IF Len(in.derivedDataPath) > 0
              THEN addParameters(c3, <<"-", "derivedDataPath">>, in.derivedDataPath)
              ELSE c3
        c5 == IF in.allowProvisioningUpdates
              THEN addOption(c4, <<"-", "allowProvisioningUpdates">>)
              ELSE c4
        c6 == IF in.shouldClean THEN addAction(c5, <<"clean">>) ELSE c5
        c7 == IF in.shouldBuild THEN addAction(c6, <<"build">>) ELSE c6
    IN  IF in.shouldTest THEN addAction(c7, <<"test">>) ELSE c7

\* tokens a user may put in build.args
ArgTokens ==
    {<<"-", "quiet">>, <<"-", "scheme">>, <<"Other">>,
     <<"ARCHS", "=", "x86_64">>, <<"ONLY_ACTIVE_ARCH", "=", "NO">>, <<"clean">>,
     <<"GCC_PREPROCESSOR_DEFINITIONS", "=", "DEBUG", "=", "1">>,
     <<"__NO_VALUE__">>}

\* token lists of three: a bare flag, a build setting and an action; a flag
\* with its value and the same word once more
LongerArgLists ==
    {<< <<"-", "quiet">>, <<"ARCHS", "=", "arm64">>, <<"clean">> >>,
     << <<"-", "scheme">>, <<"Other">>, <<"Other">> >>}

\* token lists with an empty string after a flag
EmptyTokenLists ==
    {<< <<"-", "scheme">>, <<>> >>,
     << <<"-", "quiet">>, <<>>, <<"clean">> >>}

ArgLists ==
    UNION {[1..n -> ArgTokens] : n \in 0..MaxArgs} \cup LongerArgLists \cup EmptyTokenLists

BuildInputs ==
    [arch : {<<>>, <<"arm64">>},
     debug : BOOLEAN,
     scheme : {<<"MyApp">>},
     configuration : {<<"Debug">>},
     xcworkspace : {<<"/ws/App.xcworkspace">>},
     destinationRaw : {<<"platform", "=", "macOS,arch", "=", "arm64">>},
     bundlePath : {<<"/ws/.sweetpad/bundle/MyApp">>},
     derivedDataPath : {<<>>, <<"/ws/DerivedData">>},
     allowProvisioningUpdates : BOOLEAN,
     shouldClean : BOOLEAN,
     shouldBuild : BOOLEAN,
     shouldTest : BOOLEAN,
     additionalArgs : ArgLists]

IdleInput ==
    [arch |-> <<>>, debug |-> FALSE, scheme |-> <<>>, configuration |-> <<>>,
     xcworkspace |-> <<>>, destinationRaw |-> <<>>, bundlePath |-> <<>>,
     derivedDataPath |-> <<>>, allowProvisioningUpdates |-> FALSE,
     shouldClean |-> FALSE, shouldBuild |-> FALSE, shouldTest |-> FALSE,
     additionalArgs |-> <<>>]


NoStep == [point |-> "none"]

\* the run variables while another specification runs
RunIdle ==
    /\ pc = "idle"
    /\ file0 = NoFile
    /\ runtime = NewContext(NoFile, EmptyMap)
    /\ step = NoStep
    /\ explicitAt = {}
    /\ picked = EmptyMap
    /\ flushed = FALSE
    /\ exitCode = 0
    /\ stderr = <<>>
    /\ stdout = <<>>

\* the two invocations
Invocations == {1, 2}

\* the workspace roots the invocations run against
Roots == {WorkspacePath, <<"/", "other">>}

StoragePaths ==
    {resolveStoragePath(r, ro) : r \in Roots, ro \in SUBSET Roots}

\* the invocation variables while another specification runs
ShareIdle ==
    /\ v_pc = [i \in Invocations |-> "idle"]
    /\ v_root = [i \in Invocations |-> WorkspacePath]
    /\ v_path = [i \in Invocations |-> <<>>]
    /\ v_ctx = [i \in Invocations |-> NewContext(NoFile, EmptyMap)]
    /\ v_loaded = [i \in Invocations |-> EmptyMap]
    /\ v_seen = [i \in Invocations |-> 0]
    /\ v_n = [i \in Invocations |-> 0]
    /\ disk0 = [p \in StoragePaths |-> NoFile]
    /\ disk = [p \in StoragePaths |-> NoFile]
    /\ readonly = {}
    /\ writers = <<>>

\* the variables of the two runs while another specification runs
AgainIdle ==
    /\ a_pc = "idle"
    /\ a_run = 1
    /\ a_env = [xcworkspace |-> Undef, scheme |-> Undef, configuration |-> Undef,
                destinationName |-> Undef, paths |-> <<>>, schemes |-> <<>>,
                configurations |-> <<>>, destinations |-> <<MyMac>>,
                supportedPlatforms |-> Undef]
    /\ a_ctx = NewContext(NoFile, EmptyMap)
    /\ a_shown = {}
    /\ a_res = EmptyMap
    /\ a_first = [res |-> EmptyMap, shown |-> {}]

\* the steps of run, in the order of its statements (part_001:294-342)
RunSteps ==
    <<"xcworkspace", "scheme", "configuration", "destination",
      "save", "assembly", "execution">>

\* the run-order variables while another specification runs
SeqIdle ==
    /\ q_started = {}
    /\ q_produced = {}
    /\ q_active = {}
    /\ q_failed = TRUE
    /\ q_log = <<>>

PartIdle ==
    /\ p_pc = "idle"
    /\ p_destinations = <<>>
    /\ p_platforms = <<>>
    /\ p_split = [supported |-> <<>>, unsupported |-> <<>>]
    /\ p_items = <<>>

ListIdle ==
    /\ l_pc = "idle"
    /\ l_simulators = <<>>
    /\ l_devices = <<>>
    /\ l_check = "throws"
    /\ l_platforms = <<>>
    /\ l_destinations = <<>>
    /\ l_error = ""

HookIdle ==
    /\ k_pc = "idle"
    /\ k_hook = FALSE
    /\ k_log = <<>>

SimIdle ==
    /\ m_pc = "idle"
    /\ m_sim = [listed |-> FALSE, now |-> FALSE]
    /\ m_isBooted = FALSE
    /\ m_hook = FALSE
    /\ m_log = <<>>

NoCall ==
    [op |-> "none", input |-> 1, key |-> "", value |-> JsonNull,
     before |-> <<EmptyMap>>, output |-> 1]

\* the object variables while another specification runs
HeapIdle ==
    /\ h_heap = <<EmptyMap>>
    /\ h_ref = 1
    /\ h_last = NoCall
    /\ h_n = 0

\* the store variables while another specification runs
StoreIdle ==
    /\ s_pc = "idle"
    /\ s_state = EmptyMap
    /\ s_file = NoFile
    /\ s_saved = EmptyMap
    /\ s_loaded = [ok |-> TRUE, state |-> EmptyMap]
    /\ s_sets = 0

\* the builder variables while another specification runs
BuildIdle ==
    /\ b_pc = "idle"
    /\ b_in = IdleInput
    /\ command = NewBuilder
    /\ b_parts = <<>>

BuildInit ==
    /\ b_pc = "start"
    /\ b_in \in BuildInputs
    /\ command = NewBuilder
    /\ b_parts = <<>>
    /\ StoreIdle
    /\ RunIdle
    /\ ShareIdle
    /\ AgainIdle
    /\ HeapIdle
    /\ SeqIdle
    /\ PartIdle
    /\ ListIdle
    /\ HookIdle
    /\ SimIdle

\* runner.ts:555-587
BuildStructured ==
    /\ b_pc = "start"
    /\ command' = structuredCommand(b_in)
    /\ b_pc' = "structured"
    /\ UNCHANGED <<b_in, b_parts, storeVars, runVars, shareVars, againVars, heapVars, seqVars, partVars, listVars, hookVars, simVars>>

\* runner.ts:588
BuildAddAdditionalArgs ==
    /\ b_pc = "structured"
    /\ command' = addAdditionalArgs(command, b_in.additionalArgs)
    /\ b_pc' = "merged"
    /\ UNCHANGED <<b_in, b_parts, storeVars, runVars, shareVars, againVars, heapVars, seqVars, partVars, listVars, hookVars, simVars>>

\* runner.ts:590
BuildCommandParts ==
    /\ b_pc = "merged"
    /\ b_parts' = build(command)
    /\ b_pc' = "built"
    /\ UNCHANGED <<b_in, command, storeVars, runVars, shareVars, againVars, heapVars, seqVars, partVars, listVars, hookVars, simVars>>

\* runner.ts:609-616: terminal.execute resolves on exit code 0, rejects otherwise
BuildExecute ==
    /\ b_pc = "built"
    /\ \E code \in {0, 65} : b_pc' = IF code = 0 THEN "executed" ELSE "failed"
    /\ UNCHANGED <<b_in, command, b_parts, storeVars, runVars, shareVars, againVars, heapVars, seqVars, partVars, listVars, hookVars, simVars>>

BuildNext ==
    \/ BuildStructured
    \/ BuildAddAdditionalArgs
    \/ BuildCommandParts
    \/ BuildExecute

SpecBuild == BuildInit /\ [][BuildNext]_vars

(***************************************************************************)
(* SpecStore: set / remove / save / load on arbitrary maps                 *)
(***************************************************************************)
StoreKeys == {"cli.scheme", "editor.theme"}

\* JSON-compatible scalars and strings, with strings that look like scalars
StoreValues ==
    {Str("MyApp"), Str("true"), Str("1"), Str("null"), JsonTrue, JsonNull, JsonNum("1")}

StoreMaps ==
    UNION {[d -> StoreValues] : d \in SUBSET StoreKeys}

StoreInit ==
    /\ s_pc = "mem"
    /\ s_state \in StoreMaps
    /\ s_file \in {NoFile, CorruptFile}
    /\ s_saved = EmptyMap
    /\ s_loaded = [ok |-> TRUE, state |-> EmptyMap]
    /\ s_sets = 0
    /\ BuildIdle
    /\ RunIdle
    /\ ShareIdle
    /\ AgainIdle
    /\ HeapIdle
    /\ SeqIdle
    /\ PartIdle
    /\ ListIdle
    /\ HookIdle
    /\ SimIdle

StoreSet ==
    /\ s_pc = "mem"
    /\ s_sets < MaxSets
    /\ \E k \in StoreKeys, v \in StoreValues :
          s_state' = setRememberedValue(s_state, k, v)
    /\ s_sets' = s_sets + 1
    /\ UNCHANGED <<s_pc, s_file, s_saved, s_loaded, buildVars, runVars, shareVars, againVars, heapVars, seqVars, partVars, listVars, hookVars, simVars>>

StoreRemove ==
    /\ s_pc = "mem"
    /\ s_sets < MaxSets
    /\ \E k \in StoreKeys : s_state' = removeRememberedValue(s_state, k)
    /\ s_sets' = s_sets + 1
    /\ UNCHANGED <<s_pc, s_file, s_saved, s_loaded, buildVars, runVars, shareVars, againVars, heapVars, seqVars, partVars, listVars, hookVars, simVars>>

StoreSave ==
    /\ s_pc = "mem"
    /\ s_file' = saveState(s_file, s_state)
    /\ s_saved' = s_state
    /\ s_pc' = "saved"
    /\ UNCHANGED <<s_state, s_loaded, s_sets, buildVars, runVars, shareVars, againVars, heapVars, seqVars, partVars, listVars, hookVars, simVars>>

StoreLoad ==
    /\ s_pc = "saved"
    /\ s_loaded' = loadState(s_file)
    /\ s_pc' = "loaded"
    /\ UNCHANGED <<s_state, s_file, s_saved, s_sets, buildVars, runVars, shareVars, againVars, heapVars, seqVars, partVars, listVars, hookVars, simVars>>

\* a following invocation carries on from the map it loaded
StoreResume ==
    /\ s_pc = "loaded"
    /\ s_loaded.ok
    /\ s_state' = s_loaded.state
    /\ s_pc' = "mem"
    /\ UNCHANGED <<s_file, s_saved, s_loaded, s_sets, buildVars, runVars, shareVars, againVars, heapVars, seqVars, partVars, listVars, hookVars, simVars>>

StoreNext ==
    \/ StoreSet
    \/ StoreRemove
    \/ StoreSave
    \/ StoreLoad
    \/ StoreResume

SpecStore == StoreInit /\ [][StoreNext]_vars


(***************************************************************************)
(* Spec: one run of the command line (part_001:275-444)                    *)
(***************************************************************************)
\* the members of universe at the positions in S, in the universe's order
RECURSIVE SubList(_, _, _)
SubList(universe, S, i) ==
    IF i > Len(universe) THEN <<>>
    ELSE (IF i \in S THEN <<universe[i]>> ELSE <<>>) \o SubList(universe, S, i + 1)

\* what one enumeration may report: at most MaxOptions members of universe
ListsOf(universe) ==
    {SubList(universe, S, 1) :
        S \in {T \in SUBSET (1..Len(universe)) : Cardinality(T) <= MaxOptions}}

\* what getSchemes may report
SchemeLists == ListsOf(<<<<"MyApp">>, <<"MyAppTests">>, <<"Widget">>>>)

\* what getBuildConfigurations may report
ConfigurationLists == ListsOf(<<<<"Release">>, <<"Debug">>, <<"Staging">>>>)

AppPath == <<"/", "ws", "App.xcworkspace">>

\* what detectXcodeWorkspacesPaths may report
PathLists ==
    ListsOf(<<<<"/", "ws", "ios", "App.xcworkspace">>, AppPath,
              <<"/", "ws", "Pods.xcworkspace">>>>)

\* what listDestinations may report: the Mac, then simulators, then devices
DestinationLists == {<<MyMac>> \o others : others \in ListsOf(<<Sim1, Sim2, Dev1>>)}

\* buildSettings?.supportedPlatforms
PlatformSets ==
    {Undef, Def({}), Def({"macosx"}), Def({"iphonesimulator"})}

\* how a spawned fzf may end over these items; an index past the items is a
\* line fzfPick cannot map back to an item
Outcomes(items) == FzfMissing..(Len(items) + 1)

\* --xcworkspace
XcworkspaceFlags == {Undef, Def(<<"App.xcworkspace">>)}

\* build.xcodeWorkspacePath
ConfigPaths == {Undef, Def(<<"/", "other", "App.xcworkspace">>)}

\* --scheme
SchemeFlags == {Undef, Def(<<"Widget">>)}

\* --configuration
ConfigurationFlags == {Undef, Def(<<"Release">>)}

\* sweetpad.build.configuration in .vscode/settings.json
ConfigValues == {Undef, Def(<<"Staging">>)}

\* process.env.SWEETPAD_BUILD_CONFIGURATION: unset, a name between blanks,
\* the text true, the empty string
EnvValues == {Undef, Def(<<" ", "Debug", " ">>), Def(<<"true">>), Def(<<>>)}

\* the sources of a step that reads the command line only
NoSources == [flag |-> Undef, env |-> Undef, file |-> Undef]

\* --destination-id
DestinationIdFlags == {Undef, Def(<<" ", "aaa">>)}

\* --destination
DestinationNameFlags ==
    {Undef, Def(<<"iPhone", " ">>), Def(<<" ">>)}

\* state maps an earlier run may have left in cli-state.json, with a key
\* written by something else
RememberedMaps ==
    {[k \in d |->
         IF k = "cli.xcworkspace" THEN Str(AppPath)
         ELSE IF k = "cli.scheme" THEN Str(<<"MyApp">>)
         ELSE IF k = "cli.configuration" THEN Str(<<"Release">>)
         ELSE IF k = "editor.theme" THEN JsonTrue
         ELSE Str(id)] :
        d \in {{}, {"cli.xcworkspace", "cli.scheme", "cli.configuration",
                     "cli.destination.id", "editor.theme"}},
        id \in {MyMac.id, Sim1.udid}}

InitialFiles ==
    {NoFile, CorruptFile} \cup {saveState(NoFile, m) : m \in RememberedMaps}


Init ==
    /\ pc = "start"
    /\ file0 \in InitialFiles
    /\ runtime = NewContext(file0, EmptyMap)
    /\ step = NoStep
    /\ explicitAt = {}
    /\ picked = EmptyMap
    /\ flushed = FALSE
    /\ exitCode = 0
    /\ stderr = <<>>
    /\ stdout = <<>>
    /\ StoreIdle
    /\ BuildIdle
    /\ ShareIdle
    /\ AgainIdle
    /\ HeapIdle
    /\ SeqIdle
    /\ PartIdle
    /\ ListIdle
    /\ HookIdle
    /\ SimIdle

\* run().catch (part_001:440-444)
Fail(message) ==
    /\ pc' = "failed"
    /\ exitCode' = 1
    /\ stderr' = ErrorLine(message)

\* options.help || !options.command (part_001:277-280)
RunHelp ==
    /\ pc = "start"
    /\ pc' = "done"
    /\ UNCHANGED <<file0, runtime, step, explicitAt, picked, flushed,
                   exitCode, stderr, stdout, storeVars, buildVars, shareVars, againVars, heapVars, seqVars, partVars, listVars, hookVars, simVars>>

\* CliRuntimeContext.create (context.ts:41-51, part_001:288-292)
RunCreate ==
    /\ pc = "start"
    /\ IF loadState(runtime.file).ok
       THEN /\ runtime' = NewContext(runtime.file, loadState(runtime.file).state)
            /\ pc' = "xcworkspace"
            /\ UNCHANGED <<exitCode, stderr>>
       ELSE /\ Fail("Unexpected token in JSON")
            /\ UNCHANGED runtime
    /\ UNCHANGED <<file0, step, explicitAt, picked, flushed, stdout,
                   storeVars, buildVars, shareVars, againVars, heapVars, seqVars, partVars, listVars, hookVars, simVars>>

\* one decision point has returned or thrown: r is what it gave, payload is
\* what a picker choice is remembered as
Settle(point, key, nextPc, explicit, supplied, sources, avail, supported, r, payload) ==
    /\ runtime' = r.ctx
    /\ step' = [point |-> point, key |-> key, explicit |-> explicit,
                supplied |-> supplied, sources |-> sources,
                avail |-> IF r.smart THEN avail ELSE <<>>,
                supported |-> IF r.smart THEN supported ELSE <<>>,
                remembered |-> ctxGetRememberedValue(runtime, key),
                ok |-> r.ok, value |-> r.value, shown |-> r.shown,
                error |-> r.error, smart |-> r.smart,
                stored |-> r.ctx.setKeys # runtime.setKeys]
    /\ explicitAt' = IF explicit THEN explicitAt \cup {point} ELSE explicitAt
    /\ picked' = IF r.shown /\ r.ok
                 THEN [k \in DOMAIN picked \cup {key} |->
                          IF k = key THEN Str(payload) ELSE picked[k]]
                 ELSE picked
    /\ IF r.ok
       THEN pc' = nextPc /\ UNCHANGED <<exitCode, stderr>>
       ELSE Fail(r.error)
    /\ UNCHANGED <<file0, flushed, stdout, storeVars, buildVars, shareVars, againVars, heapVars, seqVars, partVars, listVars, hookVars, simVars>>

\* In the four actions below an enumeration is drawn only where the code
\* enumerates (no explicit value), the build settings only where the smart
\* destination picker reads them, and the ending of fzf only where fzf is
\* spawned (the resolution with ending 1 reports the picker as shown); a
\* --destination given next to a --destination-id is never read.

\* part_001:294
ResolveXcworkspace ==
    /\ pc = "xcworkspace"
    /\ \E xcworkspace \in XcworkspaceFlags, configPath \in ConfigPaths :
       \E paths \in IF Truthy(Coalesce(xcworkspace, configPath))
                     THEN {<<>>} ELSE PathLists :
       \E outcome \in IF resolveXcworkspace(runtime, xcworkspace, configPath,
                                             paths, 1).shown
                       THEN Outcomes(paths) ELSE {1} :
          LET r == resolveXcworkspace(runtime, xcworkspace, configPath, paths, outcome)
          IN  Settle("xcworkspace", "cli.xcworkspace", "scheme",
                     Truthy(Coalesce(xcworkspace, configPath)),
                     Coalesce(xcworkspace, configPath), NoSources, paths, paths,
                     r, r.value)

\* part_001:295
ResolveScheme ==
    /\ pc = "scheme"
    /\ \E scheme \in SchemeFlags :
       \E schemes \in IF IsDef(scheme) THEN {<<>>} ELSE SchemeLists :
       \E outcome \in IF resolveScheme(runtime, scheme, schemes, 1).shown
                       THEN Outcomes(schemes) ELSE {1} :
          LET r == resolveScheme(runtime, scheme, schemes, outcome)
          IN  Settle("scheme", "cli.scheme", "configuration",
                     IsDef(scheme), scheme, NoSources, schemes, schemes, r, r.value)

\* part_001:296-299, with the build.configuration entry that loadCliConfig
\* left in config (part_001:283)
ResolveConfiguration ==
    /\ pc = "configuration"
    /\ \E configuration \in ConfigurationFlags, fileValue \in ConfigValues,
          envValue \in EnvValues :
       LET configValue == loadCliConfigEntry(fileValue, envValue) IN
       \E configurations \in IF IsDef(Coalesce(configuration, configValue))
                              THEN {<<>>} ELSE ConfigurationLists :
       \E outcome \in IF resolveConfiguration(runtime, configuration, configValue,
                                               configurations, 1).shown
                       THEN Outcomes(configurations) ELSE {1} :
          LET r == resolveConfiguration(runtime, configuration, configValue,
                                        configurations, outcome)
          IN  Settle("configuration", "cli.configuration", "destination",
                     IsDef(Coalesce(configuration, configValue)),
                     Coalesce(configuration, configValue),
                     [flag |-> configuration, env |-> envValue, file |-> fileValue],
                     configurations, configurations, r, r.value)

\* part_001:302-313
ResolveDestination ==
    /\ pc = "destination"
    /\ \E destinationId \in DestinationIdFlags :
       \E destinationName \in IF Truthy(destinationId)
                               THEN {Undef} ELSE DestinationNameFlags :
       \E destinations \in DestinationLists :
       \E supportedPlatforms \in
             IF resolveDestination(runtime, destinationId, destinationName,
                                   destinations, Undef, 1).smart
             THEN PlatformSets ELSE {Undef} :
       \E outcome \in IF resolveDestination(runtime, destinationId, destinationName,
                                             destinations, supportedPlatforms, 1).shown
                       THEN Outcomes(destinations) ELSE {1} :
          LET r == resolveDestination(runtime, destinationId, destinationName,
                                      destinations, supportedPlatforms, outcome)
          IN  Settle("destination", "cli.destination.id", "save",
                     Truthy(destinationId) \/ Truthy(destinationName),
                     [id |-> destinationId, name |-> destinationName],
                     NoSources, destinations,
                     splitSupportedDestinatinos(destinations, supportedPlatforms).supported,
                     r, IF r.ok THEN r.value.id ELSE <<>>)

\* part_001:315
SavePersistentState ==
    /\ pc = "save"
    /\ runtime' = ctxSavePersistentState(runtime)
    /\ flushed' = TRUE
    /\ pc' = "execute"
    /\ UNCHANGED <<file0, step, explicitAt, picked, exitCode, stderr, stdout,
                   storeVars, buildVars, shareVars, againVars, heapVars, seqVars, partVars, listVars, hookVars, simVars>>

\* destination.type is one of the four device types (part_001:412-417)
IsDevice(destination) == destination.platform = "iphoneos"

\* how the command ends: it completes; or it throws (terminal.execute rejects
\* on a non-zero exit code, terminal.ts:146-148; an unknown command); or, for
\* run and launch on a device, devicectl reports an outcome other than
\* "success" (runner.ts:321-329)
CommandEndings(destination) ==
    IF IsDevice(destination)
    THEN {"completed", "threw", "notLaunched"}
    ELSE {"completed", "threw"}

\* the switch of run with runOniOSDevice (runner.ts:315-333): what is thrown
\* to run().catch and what is written to the terminal, which is stdout
\* (terminal.ts:73-84)
commandResult(ending) ==
    [throws |-> ending = "threw",
     message |-> "Command failed",
     written |-> IF ending = "notLaunched"
                 THEN <<"Error launching app on device">> ELSE <<>>]

\* part_001:317-437
ExecuteCommand ==
    /\ pc = "execute"
    /\ \E ending \in CommandEndings(step.value) :
          /\ IF commandResult(ending).throws
             THEN Fail(commandResult(ending).message)
             ELSE pc' = "done" /\ UNCHANGED <<exitCode, stderr>>
          /\ stdout' = stdout \o commandResult(ending).written
    /\ UNCHANGED <<file0, runtime, step, explicitAt, picked, flushed,
                   storeVars, buildVars, shareVars, againVars, heapVars, seqVars, partVars, listVars, hookVars, simVars>>

Next ==
    \/ RunHelp
    \/ RunCreate
    \/ ResolveXcworkspace
    \/ ResolveScheme
    \/ ResolveConfiguration
    \/ ResolveDestination
    \/ SavePersistentState
    \/ ExecuteCommand

Spec == Init /\ [][Next]_vars

(***************************************************************************)
(* SpecShare: two invocations, each creating its context, remembering and  *)
(* saving, over the state files of the storage paths they resolve          *)
(***************************************************************************)
ShareKeys == {"cli.scheme", "cli.configuration"}

ShareValues == {Str(<<"MyApp">>), Str(<<"Widget">>)}

\* a state file left by an earlier run
EarlierFile ==
    saveState(NoFile, [k \in ShareKeys |->
                         IF k = "cli.scheme" THEN Str(<<"MyApp">>)
                         ELSE Str(<<"Release">>)])

\* the workspaces' own directories alike, the shared one on its own
InitialDisks ==
    {[p \in StoragePaths |->
        IF p = resolveStoragePath(WorkspacePath, {WorkspacePath}) THEN shared ELSE own] :
     shared \in {NoFile, EarlierFile}, own \in {NoFile, EarlierFile}}

ShareInit ==
    /\ v_pc = [i \in Invocations |-> "start"]
    /\ v_root \in {r \in [Invocations -> Roots] : r[1] = WorkspacePath}
    /\ v_path = [i \in Invocations |-> <<>>]
    /\ v_ctx = [i \in Invocations |-> NewContext(NoFile, EmptyMap)]
    /\ v_loaded = [i \in Invocations |-> EmptyMap]
    /\ v_seen = [i \in Invocations |-> 0]
    /\ v_n = [i \in Invocations |-> 0]
    /\ disk0 \in InitialDisks
    /\ disk = disk0
    /\ readonly \in SUBSET Roots
    /\ writers = <<>>
    /\ StoreIdle
    /\ BuildIdle
    /\ RunIdle
    /\ AgainIdle
    /\ HeapIdle
    /\ SeqIdle
    /\ PartIdle
    /\ ListIdle
    /\ HookIdle
    /\ SimIdle

\* CliRuntimeContext.create (context.ts:41-51)
ShareCreate(i) ==
    /\ v_pc[i] = "start"
    /\ LET storagePath == resolveStoragePath(v_root[i], readonly)
           persistentState == loadState(disk[storagePath])
       IN  /\ persistentState.ok
           /\ v_path' = [v_path EXCEPT ![i] = storagePath]
           /\ v_ctx' = [v_ctx EXCEPT ![i] =
                           NewContext(disk[storagePath], persistentState.state)]
           /\ v_loaded' = [v_loaded EXCEPT ![i] = persistentState.state]
    /\ v_seen' = [v_seen EXCEPT ![i] = Len(writers)]
    /\ v_pc' = [v_pc EXCEPT ![i] = "run"]
    /\ UNCHANGED <<v_root, v_n, disk0, disk, readonly, writers,
                   storeVars, buildVars, runVars, againVars, heapVars, seqVars, partVars, listVars, hookVars, simVars>>

\* setRememberedValue (context.ts:64-67)
ShareSet(i) ==
    /\ v_pc[i] = "run"
    /\ v_n[i] < MaxSets
    /\ \E k \in ShareKeys, v \in ShareValues :
          v_ctx' = [v_ctx EXCEPT ![i] = ctxSetRememberedValue(@, k, v)]
    /\ v_n' = [v_n EXCEPT ![i] = @ + 1]
    /\ UNCHANGED <<v_pc, v_root, v_path, v_loaded, v_seen, disk0, disk,
                   readonly, writers, storeVars, buildVars, runVars, againVars, heapVars, seqVars, partVars, listVars, hookVars, simVars>>

\* removeRememberedValue (context.ts:69-73)
ShareRemove(i) ==
    /\ v_pc[i] = "run"
    /\ v_n[i] < MaxSets
    /\ \E k \in ShareKeys :
          v_ctx' = [v_ctx EXCEPT ![i] = ctxRemoveRememberedValue(@, k)]
    /\ v_n' = [v_n EXCEPT ![i] = @ + 1]
    /\ UNCHANGED <<v_pc, v_root, v_path, v_loaded, v_seen, disk0, disk,
                   readonly, writers, storeVars, buildVars, runVars, againVars, heapVars, seqVars, partVars, listVars, hookVars, simVars>>

\* savePersistentState (context.ts:53-58) on the file as it is on disk now
ShareSave(i) ==
    /\ v_pc[i] = "run"
    /\ LET saved == ctxSavePersistentState([v_ctx[i] EXCEPT !.file = disk[v_path[i]]])
       IN  /\ v_ctx' = [v_ctx EXCEPT ![i] = saved]
           /\ disk' = [disk EXCEPT ![v_path[i]] = saved.file]
           /\ writers' = IF saved.writes > v_ctx[i].writes
                         THEN Append(writers, i) ELSE writers
    /\ v_pc' = [v_pc EXCEPT ![i] = "exited"]
    /\ UNCHANGED <<v_root, v_path, v_loaded, v_seen, v_n, disk0, readonly,
                   storeVars, buildVars, runVars, againVars, heapVars, seqVars, partVars, listVars, hookVars, simVars>>

ShareNext ==
    \/ \E i \in Invocations : ShareCreate(i)
    \/ \E i \in Invocations : ShareSet(i)
    \/ \E i \in Invocations : ShareRemove(i)
    \/ \E i \in Invocations : ShareSave(i)

SpecShare == ShareInit /\ [][ShareNext]_vars

(***************************************************************************)
(* SpecAgain: one run up to savePersistentState, then a second run with    *)
(* the same flags over the same project and host                           *)
(***************************************************************************)
\* the flags and enumerations of both runs
AgainEnvs ==
    [xcworkspace : XcworkspaceFlags,
     scheme : SchemeFlags,
     configuration : ConfigurationFlags,
     destinationName : {Undef, Def(<<"iPhone", " ">>)},
     paths : {<<AppPath>>, <<<<"/", "ws", "ios", "App.xcworkspace">>, AppPath>>},
     schemes : {<<<<"MyApp">>, <<"Widget">>>>,
                <<<<"MyApp">>, <<"MyAppTests">>, <<"Widget">>>>},
     configurations : {<<<<"Release">>, <<"Debug">>>>,
                       <<<<"Release">>, <<"Debug">>, <<"Staging">>>>},
     destinations : {<<MyMac>>, <<MyMac, Sim1>>, <<MyMac, Sim1, Sim2>>},
     supportedPlatforms : PlatformSets]

\* cli-state.json before the first run: absent, or left by earlier runs
AgainFiles == {f \in InitialFiles : loadState(f).ok /\ f # FileOf(<<>>)}

AgainInit ==
    /\ a_pc = "start"
    /\ a_run = 1
    /\ a_env \in AgainEnvs
    /\ a_ctx \in {NewContext(f, EmptyMap) : f \in AgainFiles}
    /\ a_shown = {}
    /\ a_res = EmptyMap
    /\ a_first = [res |-> EmptyMap, shown |-> {}]
    /\ StoreIdle
    /\ BuildIdle
    /\ RunIdle
    /\ ShareIdle
    /\ HeapIdle
    /\ SeqIdle
    /\ PartIdle
    /\ ListIdle
    /\ HookIdle
    /\ SimIdle

\* CliRuntimeContext.create (context.ts:41-51, part_001:288-292)
AgainCreate ==
    /\ a_pc = "start"
    /\ loadState(a_ctx.file).ok
    /\ a_ctx' = NewContext(a_ctx.file, loadState(a_ctx.file).state)
    /\ a_pc' = "xcworkspace"
    /\ UNCHANGED <<a_run, a_env, a_shown, a_res, a_first,
                   storeVars, buildVars, runVars, shareVars, heapVars, seqVars, partVars, listVars, hookVars, simVars>>

\* one decision point has returned or thrown
AgainSettle(point, nextPc, r) ==
    /\ a_ctx' = r.ctx
    /\ a_pc' = IF r.ok THEN nextPc ELSE "failed"
    /\ a_res' = IF r.ok
                THEN [k \in DOMAIN a_res \cup {point} |->
                        IF k = point THEN r.value ELSE a_res[k]]
                ELSE a_res
    /\ a_shown' = IF r.shown THEN a_shown \cup {point} ELSE a_shown
    /\ UNCHANGED <<a_run, a_env, a_first,
                   storeVars, buildVars, runVars, shareVars, heapVars, seqVars, partVars, listVars, hookVars, simVars>>

\* part_001:294
AgainResolveXcworkspace ==
    /\ a_pc = "xcworkspace"
    /\ \E outcome \in Outcomes(a_env.paths) :
          AgainSettle("xcworkspace", "scheme",
                      resolveXcworkspace(a_ctx, a_env.xcworkspace, Undef,
                                         a_env.paths, outcome))

\* part_001:295
AgainResolveScheme ==
    /\ a_pc = "scheme"
    /\ \E outcome \in Outcomes(a_env.schemes) :
          AgainSettle("scheme", "configuration",
                      resolveScheme(a_ctx, a_env.scheme, a_env.schemes, outcome))

\* part_001:296-299
AgainResolveConfiguration ==
    /\ a_pc = "configuration"
    /\ \E outcome \in Outcomes(a_env.configurations) :
          AgainSettle("configuration", "destination",
                      resolveConfiguration(a_ctx, a_env.configuration, Undef,
                                           a_env.configurations, outcome))

\* part_001:301-313
AgainResolveDestination ==
    /\ a_pc = "destination"
    /\ \E outcome \in Outcomes(a_env.destinations) :
          AgainSettle("destination", "save",
                      resolveDestination(a_ctx, Undef, a_env.destinationName,
                                         a_env.destinations,
                                         a_env.supportedPlatforms, outcome))

\* part_001:315
AgainSave ==
    /\ a_pc = "save"
    /\ a_ctx' = ctxSavePersistentState(a_ctx)
    /\ a_pc' = "saved"
    /\ UNCHANGED <<a_run, a_env, a_shown, a_res, a_first,
                   storeVars, buildVars, runVars, shareVars, heapVars, seqVars, partVars, listVars, hookVars, simVars>>

\* the first process has ended, whatever its command did; the next one starts
\* with the state file the first one left
AgainRestart ==
    /\ a_pc = "saved"
    /\ a_run = 1
    /\ a_run' = 2
    /\ a_first' = [res |-> a_res, shown |-> a_shown]
    /\ a_ctx' = NewContext(a_ctx.file, EmptyMap)
    /\ a_shown' = {}
    /\ a_res' = EmptyMap
    /\ a_pc' = "start"
    /\ UNCHANGED <<a_env, storeVars, buildVars, runVars, shareVars, heapVars, seqVars, partVars, listVars, hookVars, simVars>>

AgainNext ==
    \/ AgainCreate
    \/ AgainResolveXcworkspace
    \/ AgainResolveScheme
    \/ AgainResolveConfiguration
    \/ AgainResolveDestination
    \/ AgainSave
    \/ AgainRestart

SpecAgain == AgainInit /\ [][AgainNext]_vars

(***************************************************************************)
(* SpecHeap: set / remove on state maps held by reference                  *)
(***************************************************************************)
HeapInit ==
    /\ h_heap \in {<<m>> : m \in StoreMaps}
    /\ h_ref = 1
    /\ h_last = NoCall
    /\ h_n = 0
    /\ StoreIdle
    /\ BuildIdle
    /\ RunIdle
    /\ ShareIdle
    /\ AgainIdle
    /\ SeqIdle
    /\ PartIdle
    /\ ListIdle
    /\ HookIdle
    /\ SimIdle

\* one call has returned r; the field is assigned the returned reference
HeapReturn(op, key, value, r) ==
    /\ h_heap' = r.heap
    /\ h_ref' = r.ref
    /\ h_last' = [op |-> op, input |-> h_ref, key |-> key, value |-> value,
                  before |-> h_heap, output |-> r.ref]
    /\ h_n' = h_n + 1
    /\ UNCHANGED <<storeVars, buildVars, runVars, shareVars, againVars, seqVars, partVars, listVars, hookVars, simVars>>

\* CliRuntimeContext.setRememberedValue (context.ts:64-67)
HeapSet ==
    /\ h_n < MaxSets
    /\ \E k \in StoreKeys, v \in StoreValues :
          HeapReturn("set", k, v, setRememberedValueObj(h_heap, h_ref, k, v))

\* removeRememberedValue of state.ts called on the map held (state.ts:38-42)
HeapRemove ==
    /\ h_n < MaxSets
    /\ \E k \in StoreKeys :
          HeapReturn("remove", k, JsonNull, removeRememberedValueObj(h_heap, h_ref, k))

\* CliRuntimeContext.removeRememberedValue (context.ts:69-73): the field is
\* given a copy first, and the delete is applied to the copy
HeapCtxRemove ==
    /\ h_n < MaxSets
    /\ \E k \in StoreKeys :
          LET copied == [heap |-> Append(h_heap, h_heap[h_ref]), ref |-> Len(h_heap) + 1]
          IN  HeapReturn("ctxRemove", k, JsonNull,
                         [heap |-> [copied.heap EXCEPT ![copied.ref] =
                                       removeRememberedValue(@, k)],
                          ref |-> copied.ref])

HeapNext ==
    \/ HeapSet
    \/ HeapRemove
    \/ HeapCtxRemove

SpecHeap == HeapInit /\ [][HeapNext]_vars

(***************************************************************************)
(* SpecSeq: the order in which run starts its steps and waits for them     *)
(***************************************************************************)
\* steps i and i + 1 of a run that does not await the scheme before it asks
\* for the configuration
MayStartUnawaited(i, started, produced) ==
    /\ RunSteps[i] \notin started
    /\ \A j \in 1..(i - 1) :
          /\ RunSteps[j] \in started
          /\ (RunSteps[j] \in produced \/ (RunSteps[j] = "scheme" /\ i = j + 1))

\* run is one chain of awaits (part_001:294-342): statement i is reached when
\* every statement before it has returned its value
MayStart(i, started, produced) ==
    /\ RunSteps[i] \notin started
    /\ \A j \in 1..(i - 1) : RunSteps[j] \in started /\ RunSteps[j] \in produced

SeqInit ==
    /\ q_started = {}
    /\ q_produced = {}
    /\ q_active = {}
    /\ q_failed = FALSE
    /\ q_log = <<>>
    /\ PartIdle
    /\ ListIdle
    /\ HookIdle
    /\ SimIdle
    /\ StoreIdle
    /\ BuildIdle
    /\ RunIdle
    /\ ShareIdle
    /\ AgainIdle
    /\ HeapIdle

\* a statement of run is reached; a decision point with no explicit value,
\* no usable remembered value and several options spawns fzf (fzf.ts:20-21)
SeqStart ==
    /\ ~q_failed
    /\ \E i \in 1..Len(RunSteps) :
          /\ MayStart(i, q_started, q_produced)
          /\ \E spawns \in IF i <= 4 THEN BOOLEAN ELSE {FALSE} :
                /\ q_active' = IF spawns THEN q_active \cup {RunSteps[i]} ELSE q_active
                /\ q_log' = Append(q_log, <<RunSteps[i], IF spawns THEN "spawn" ELSE "start">>)
          /\ q_started' = q_started \cup {RunSteps[i]}
    /\ UNCHANGED <<q_produced, q_failed,
                   storeVars, buildVars, runVars, shareVars, againVars, heapVars, partVars, listVars, hookVars, simVars>>

\* a close handler that settles the promise for exit code 0 only
fzfCloseSettlesOnZero(code) == IF code = 0 THEN "picked" ELSE "pending"

\* the close handler of fzfPick (fzf.ts:42-56): the promise is rejected for a
\* non-zero code and resolved (or rejected, for an unreadable line) for 0
fzfCloseSettles(code) == IF code = 0 THEN "picked" ELSE "cancelled"

\* child.on("close") (fzf.ts:42-56): the promise resolves or rejects
SeqClose ==
    /\ ~q_failed
    /\ \E s \in q_active : \E code \in {0, 130} :
          /\ q_active' = q_active \ {s}
          /\ q_produced' = IF fzfCloseSettles(code) = "picked"
                           THEN q_produced \cup {s} ELSE q_produced
          /\ q_failed' = (fzfCloseSettles(code) = "cancelled")
          /\ q_log' = Append(q_log, <<s, fzfCloseSettles(code)>>)
    /\ UNCHANGED <<q_started, storeVars, buildVars, runVars, shareVars, againVars, heapVars, partVars, listVars, hookVars, simVars>>

\* an await that spawned no fzf returns or throws
SeqReturn ==
    /\ ~q_failed
    /\ \E s \in (q_started \ q_produced) \ q_active : \E ok \in BOOLEAN :
          /\ ~Has(q_log, <<s, "spawn">>)
          /\ q_produced' = IF ok THEN q_produced \cup {s} ELSE q_produced
          /\ q_failed' = ~ok
          /\ q_log' = Append(q_log, <<s, IF ok THEN "returned" ELSE "threw">>)
    /\ UNCHANGED <<q_started, q_active,
                   storeVars, buildVars, runVars, shareVars, againVars, heapVars, partVars, listVars, hookVars, simVars>>

SeqNext ==
    \/ SeqStart
    \/ SeqClose
    \/ SeqReturn

SpecSeq == SeqInit /\ [][SeqNext]_vars

\* run with its scheduling: a statement that is reached is executed, a child
\* that was spawned exits, and an awaited call that spawned no fzf (an
\* enumeration, a toolchain command) returns or throws
FairSpecSeq ==
    SpecSeq /\ WF_vars(SeqStart) /\ WF_vars(SeqClose) /\ WF_vars(SeqReturn)

\* process.exitCode when the event loop is empty (part_001:440-444)
SeqExitCode == IF q_failed THEN 1 ELSE 0

(***************************************************************************)
(* One enumeration of destinations and its partition                       *)
(***************************************************************************)
\* what listDestinations may report here, the empty list included
PartLists == ListsOf(<<MyMac, Sim1, Sim2, Dev1>>)

\* buildSettings?.supportedPlatforms: absent, or any set of platform tags
PartPlatformSets ==
    {Undef} \cup {Def(P) : P \in SUBSET {"macosx", "iphonesimulator", "iphoneos"}}

PartInit ==
    /\ p_pc = "listed"
    /\ p_destinations \in PartLists
    /\ p_platforms \in PartPlatformSets
    /\ p_split = [supported |-> <<>>, unsupported |-> <<>>]
    /\ p_items = <<>>
    /\ ListIdle
    /\ HookIdle
    /\ SimIdle
    /\ StoreIdle
    /\ BuildIdle
    /\ RunIdle
    /\ ShareIdle
    /\ AgainIdle
    /\ HeapIdle
    /\ SeqIdle

\* config.ts:252-255 and 411-414
PartSplit ==
    /\ p_pc = "listed"
    /\ p_split' = splitSupportedDestinatinos(p_destinations, p_platforms)
    /\ p_pc' = "split"
    /\ UNCHANGED <<p_destinations, p_platforms, p_items, storeVars, buildVars,
                   runVars, shareVars, againVars, heapVars, seqVars, listVars, hookVars, simVars>>

\* config.ts:257-259 and 416-418
PartThrow ==
    /\ p_pc = "split"
    /\ Len(p_split.supported) = 0 /\ Len(p_split.unsupported) = 0
    /\ p_pc' = "failed"
    /\ UNCHANGED <<p_destinations, p_platforms, p_split, p_items, storeVars,
                   buildVars, runVars, shareVars, againVars, heapVars, seqVars, listVars, hookVars, simVars>>

\* config.ts:261-270
PartItems ==
    /\ p_pc = "split"
    /\ ~(Len(p_split.supported) = 0 /\ Len(p_split.unsupported) = 0)
    /\ p_items' = destinationItems(p_split)
    /\ p_pc' = "offered"
    /\ UNCHANGED <<p_destinations, p_platforms, p_split, storeVars, buildVars,
                   runVars, shareVars, againVars, heapVars, seqVars, listVars, hookVars, simVars>>

PartNext ==
    \/ PartSplit
    \/ PartThrow
    \/ PartItems

SpecPart == PartInit /\ [][PartNext]_vars

(***************************************************************************)
(* listDestinations (config.ts:188-228)                                    *)
(***************************************************************************)
\* device.hardwareProperties.deviceType: the five families the code names,
\* and one it does not
DeviceTypes == {"appleWatch", "iPhone", "iPad", "appleVision", "appleTV", "realityDevice"}

RecognizedDeviceTypes == {"appleWatch", "iPhone", "iPad", "appleVision", "appleTV"}

\* one entry of deviceOutput.result.devices
RawDevices ==
    {[udid |-> <<"CCC">>, name |-> <<"Huy", " ", "iPad">>, deviceType |-> t] : t \in DeviceTypes}

DeviceLists == UNION {[1..n -> RawDevices] : n \in 0..MaxOptions}

\* the four device destination classes (devices/types): id prefix and platform
deviceDestination(prefix, platform, device) ==
    [id |-> <<prefix>> \o device.udid, hasUdid |-> TRUE, udid |-> device.udid,
     name |-> device.name, label |-> device.name, platform |-> platform]

\* the callback of .map (config.ts:206-223): the destination of a device, or
\* checkUnreachable(deviceType) and then null. check is how checkUnreachable
\* (common/types) ends: it throws, or it returns
classifyDevice(device, check) ==
    LET deviceType == device.deviceType
    IN  IF deviceType = "appleWatch"
        THEN [throws |-> FALSE, value |-> Def(deviceDestination("watchosdevice-", "watchos", device))]
        ELSE IF deviceType = "iPhone" \/ deviceType = "iPad"
        THEN [throws |-> FALSE, value |-> Def(deviceDestination("iosdevice-", "iphoneos", device))]
        ELSE IF deviceType = "appleVision"
        THEN [throws |-> FALSE, value |-> Def(deviceDestination("visionosdevice-", "xros", device))]
        ELSE IF deviceType = "appleTV"
        THEN [throws |-> FALSE, value |-> Def(deviceDestination("tvosdevice-", "appletvos", device))]
        ELSE [throws |-> check = "throws", value |-> Undef]

\* .map(...).filter(device !== null) (config.ts:205-224)
RECURSIVE mapDevices(_, _)
mapDevices(devices, check) ==
    IF devices = <<>> THEN [throws |-> FALSE, value |-> <<>>]
    ELSE LET first == classifyDevice(Head(devices), check)
             rest == mapDevices(Tail(devices), check)
         IN  IF first.throws \/ rest.throws
             THEN [throws |-> TRUE, value |-> <<>>]
             ELSE [throws |-> FALSE, value |-> first.value \o rest.value]

\* a listDestinations that does not push the local machine
listDestinationsWithoutMac(simulators, devices, check) ==
    LET deviceDestinations == mapDevices(devices, check)
    IN  [throws |-> deviceDestinations.throws,
         value |-> IF deviceDestinations.throws THEN <<>>
                   ELSE simulators \o deviceDestinations.value]

\* listDestinations (config.ts:188-228)
listDestinations(simulators, devices, check) ==
    LET deviceDestinations == mapDevices(devices, check)
    IN  [throws |-> deviceDestinations.throws,
         value |-> IF deviceDestinations.throws THEN <<>>
                   ELSE <<MyMac>> \o simulators \o deviceDestinations.value]

ListInit ==
    /\ l_pc = "start"
    /\ l_simulators \in ListsOf(<<Sim1, Sim2>>)
    /\ l_devices \in DeviceLists
    /\ l_check \in {"throws", "returns"}
    /\ l_platforms \in PlatformSets
    /\ l_destinations = <<>>
    /\ l_error = ""
    /\ StoreIdle
    /\ BuildIdle
    /\ RunIdle
    /\ ShareIdle
    /\ AgainIdle
    /\ HeapIdle
    /\ SeqIdle
    /\ PartIdle
    /\ HookIdle
    /\ SimIdle

\* config.ts:247-250 and 406-409: await listDestinations(...)
ListDestinations ==
    /\ l_pc = "start"
    /\ LET r == listDestinations(l_simulators, l_devices, l_check)
       IN  IF r.throws
           THEN /\ l_pc' = "failed"
                /\ l_error' = "Unreachable code reached"
                /\ UNCHANGED l_destinations
           ELSE /\ l_pc' = "listed"
                /\ l_destinations' = r.value
                /\ UNCHANGED l_error
    /\ UNCHANGED <<l_simulators, l_devices, l_check, l_platforms, storeVars, buildVars, runVars, shareVars,
                   againVars, heapVars, seqVars, partVars, hookVars, simVars>>

\* config.ts:252-259 and 411-418: the partition and the test for nothing found
ListSplit ==
    /\ l_pc = "listed"
    /\ LET split == splitSupportedDestinatinos(l_destinations, l_platforms)
       IN  IF Len(split.supported) = 0 /\ Len(split.unsupported) = 0
           THEN l_pc' = "failed" /\ l_error' = "No destinations found"
           ELSE l_pc' = "offered" /\ UNCHANGED l_error
    /\ UNCHANGED <<l_simulators, l_devices, l_check, l_platforms, l_destinations,
                   storeVars, buildVars, runVars, shareVars,
                   againVars, heapVars, seqVars, partVars, hookVars, simVars>>

ListNext ==
    \/ ListDestinations
    \/ ListSplit

SpecList == ListInit /\ [][ListNext]_vars

(***************************************************************************)
(* buildApp and the command it awaits (runner.ts:530-617)                  *)
(***************************************************************************)
\* an execute whose promise resolves whatever the child reports
executeAlwaysResolves(event) == "resolved"

\* how the promise of CliTaskTerminal.execute settles (terminal.ts:137-155):
\* on close with code 0 it resolves, on any other close and on error it rejects
executeSettles(event) == IF event = "close:0" THEN "resolved" ELSE "rejected"

\* how the child of execute may end: closed with code 0, closed with the code
\* xcodebuild gives a failed build, or not spawned
ChildEvents == {"close:0", "close:65", "error"}

HookInit ==
    /\ k_pc = "start"
    /\ k_hook \in BOOLEAN
    /\ k_log = <<>>
    /\ StoreIdle
    /\ BuildIdle
    /\ RunIdle
    /\ ShareIdle
    /\ AgainIdle
    /\ HeapIdle
    /\ SeqIdle
    /\ PartIdle
    /\ ListIdle
    /\ SimIdle

\* runner.ts:544-608: the bundle directory, the command, the progress status,
\* the build server configuration; the awaits among them may throw
HookPrepare ==
    /\ k_pc = "start"
    /\ \E throws \in BOOLEAN :
       \E status \in {"status:Cleaning", "status:Building", "status:none"} :
       \E pipes \in {"pipes:xcbeautify", "pipes:none"} :
          IF throws
          THEN k_pc' = "failed" /\ k_log' = Append(k_log, "prepare:failed")
          ELSE k_pc' = "prepared" /\ k_log' = k_log \o <<status, pipes>>
    /\ UNCHANGED <<k_hook, storeVars, buildVars, runVars, shareVars, againVars,
                   heapVars, seqVars, partVars, listVars, simVars>>

\* terminal.ts:119-123: spawn
HookSpawn ==
    /\ k_pc = "prepared"
    /\ k_pc' = "running"
    /\ k_log' = Append(k_log, "spawn")
    /\ UNCHANGED <<k_hook, storeVars, buildVars, runVars, shareVars, againVars,
                   heapVars, seqVars, partVars, listVars, simVars>>

\* terminal.ts:125-136: the child writes to stdout or stderr
HookData ==
    /\ k_pc = "running"
    /\ ~Has(k_log, "data")
    /\ k_log' = Append(k_log, "data")
    /\ UNCHANGED <<k_pc, k_hook, storeVars, buildVars, runVars, shareVars, againVars,
                   heapVars, seqVars, partVars, listVars, simVars>>

\* terminal.ts:137-155 and runner.ts:609-614: the child ends, the promise
\* settles, and a rejection leaves buildApp
HookSettle ==
    /\ k_pc = "running"
    /\ \E event \in ChildEvents :
          /\ k_log' = Append(k_log, event)
          /\ k_pc' = IF executeSettles(event) = "resolved" THEN "executed" ELSE "failed"
    /\ UNCHANGED <<k_hook, storeVars, buildVars, runVars, shareVars, againVars,
                   heapVars, seqVars, partVars, listVars, simVars>>

\* runner.ts:616: await runtime.onBuildCompleted?.()
HookCompleted ==
    /\ k_pc = "executed"
    /\ IF k_hook
       THEN /\ k_log' = Append(k_log, "onBuildCompleted")
            /\ \E throws \in BOOLEAN : k_pc' = IF throws THEN "failed" ELSE "done"
       ELSE k_pc' = "done" /\ UNCHANGED k_log
    /\ UNCHANGED <<k_hook, storeVars, buildVars, runVars, shareVars, againVars,
                   heapVars, seqVars, partVars, listVars, simVars>>

HookNext ==
    \/ HookPrepare
    \/ HookSpawn
    \/ HookData
    \/ HookSettle
    \/ HookCompleted

SpecHook == HookInit /\ [][HookNext]_vars

(***************************************************************************)
(* runOniOSSimulator (runner.ts:150-234)                                   *)
(***************************************************************************)
\* a lookup that answers from the list read when the destination was chosen
getSimulatorByUdidCached(sim) == sim.listed

\* CliRuntimeContext.getSimulatorByUdid (context.ts:99-106): isBooted of the
\* simulator found in getSimulators({ refresh: true })
getSimulatorByUdid(sim) == sim.now

SimInit ==
    /\ m_pc = "start"
    /\ m_sim \in [listed : BOOLEAN, now : BOOLEAN]
    /\ m_isBooted = FALSE
    /\ m_hook \in BOOLEAN
    /\ m_log = <<>>
    /\ StoreIdle
    /\ BuildIdle
    /\ RunIdle
    /\ ShareIdle
    /\ AgainIdle
    /\ HeapIdle
    /\ SeqIdle
    /\ PartIdle
    /\ ListIdle
    /\ HookIdle

\* runner.ts:166-176: the build settings and the app path; either may throw
SimPrepare ==
    /\ m_pc = "start"
    /\ \E throws \in BOOLEAN : m_pc' = IF throws THEN "failed" ELSE "lookup"
    /\ UNCHANGED <<m_sim, m_isBooted, m_hook, m_log, storeVars, buildVars, runVars, shareVars, againVars,
                   heapVars, seqVars, partVars, listVars, hookVars>>

\* runner.ts:178-183: the lookup, which throws "Simulator not found"
\* (context.ts:102-104), and the test of isBooted
SimLookup ==
    /\ m_pc = "lookup"
    /\ \E found \in BOOLEAN :
          IF found
          THEN /\ m_isBooted' = getSimulatorByUdid(m_sim)
               /\ m_log' = Append(m_log, "lookup")
               /\ m_pc' = IF getSimulatorByUdid(m_sim) THEN "open" ELSE "boot"
          ELSE /\ m_pc' = "failed"
               /\ m_log' = Append(m_log, "lookup:failed")
               /\ UNCHANGED m_isBooted
    /\ UNCHANGED <<m_sim, m_hook, storeVars, buildVars, runVars, shareVars, againVars,
                   heapVars, seqVars, partVars, listVars, hookVars>>

\* await terminal.execute(...): the command is issued, its child ends, and
\* the promise settles (terminal.ts:119-155)
SimExecute(from, name, next) ==
    /\ m_pc = from
    /\ \E event \in ChildEvents :
          /\ m_log' = m_log \o <<name, event>>
          /\ m_pc' = IF executeSettles(event) = "resolved" THEN next ELSE "failed"
    /\ UNCHANGED <<m_sim, m_isBooted, m_hook, storeVars, buildVars, runVars, shareVars, againVars,
                   heapVars, seqVars, partVars, listVars, hookVars>>

\* runner.ts:185-188: xcrun simctl boot
SimBoot == SimExecute("boot", "boot", "booted")

\* runner.ts:190: await runtime.onSimulatorBooted?.()
SimBooted ==
    /\ m_pc = "booted"
    /\ IF m_hook
       THEN /\ m_log' = Append(m_log, "onSimulatorBooted")
            /\ \E throws \in BOOLEAN : m_pc' = IF throws THEN "failed" ELSE "open"
       ELSE m_pc' = "open" /\ UNCHANGED m_log
    /\ UNCHANGED <<m_sim, m_isBooted, m_hook, storeVars, buildVars, runVars, shareVars, againVars,
                   heapVars, seqVars, partVars, listVars, hookVars>>

\* runner.ts:194-200: open -a Simulator
SimOpen == SimExecute("open", "open", "install")

\* runner.ts:203-207: xcrun simctl install
SimInstall == SimExecute("install", "install", "launch")

\* runner.ts:218-234: xcrun simctl launch
SimLaunch == SimExecute("launch", "launch", "done")

SimNext ==
    \/ SimPrepare
    \/ SimLookup
    \/ SimBoot
    \/ SimBooted
    \/ SimOpen
    \/ SimInstall
    \/ SimLaunch

SpecSim == SimInit /\ [][SimNext]_vars

(***************************************************************************)
(* Reading declarations and the assembled output                           *)
(***************************************************************************)
\* every declaration buildApp makes, in order, before any deduplication
Declared == scanArgs(structuredCommand(b_in), b_in.additionalArgs, 1)

Structured == structuredCommand(b_in)

ParamsKV(ps) == [i \in 1..Len(ps) |-> [key |-> ps[i].arg, value |-> ps[i].value]]

\* the KEY=VALUE tokens of the output: those before the first flag
RECURSIVE SettingTokens(_)
SettingTokens(parts) ==
    IF parts = <<>> \/ startsWithDash(Head(parts)) THEN <<>>
    ELSE <<Head(parts)>> \o SettingTokens(Tail(parts))

TokenKV(tok) ==
    [key |-> SubSeq(tok, 1, NextEq(tok, 1) - 1),
     value |-> SubSeq(tok, NextEq(tok, 1) + 1, Len(tok))]

OutSettings ==
    LET toks == SettingTokens(Tail(b_parts))
    IN  [i \in 1..Len(toks) |-> TokenKV(toks[i])]

OutParameters == ParamsKV(command.parameters)

Assembled == b_pc \in {"built", "executed", "failed"}

Idx(kvs, k) == {i \in 1..Len(kvs) : kvs[i].key = k}

KeysIn(kvs) == {kvs[i].key : i \in 1..Len(kvs)}

FirstOf(S) == CHOOSE i \in S : \A j \in S : i <= j

LastOf(S) == CHOOSE i \in S : \A j \in S : j <= i

\* keys declared at least twice, with different values
Redeclared(decl) ==
    {k \in KeysIn(decl) :
        \E i, j \in Idx(decl, k) : decl[i].value # decl[j].value}

\* one occurrence, value of the last declaration, place of the FIRST one
FirstPlaceLastValue(decl, out, k) ==
    /\ Cardinality(Idx(out, k)) = 1
    /\ \A p \in Idx(out, k) :
          /\ out[p].value = decl[LastOf(Idx(decl, k))].value
          /\ \A k2 \in KeysIn(out) \ {k} : \A p2 \in Idx(out, k2) :
                (p < p2) <=> (FirstOf(Idx(decl, k)) < FirstOf(Idx(decl, k2)))

\* one occurrence, value and place of the LAST declaration
LastPlaceLastValue(decl, out, k) ==
    /\ Cardinality(Idx(out, k)) = 1
    /\ \A p \in Idx(out, k) :
          /\ out[p].value = decl[LastOf(Idx(decl, k))].value
          /\ \A k2 \in KeysIn(out) \ {k} : \A p2 \in Idx(out, k2) :
                (p < p2) <=> (LastOf(Idx(decl, k)) < LastOf(Idx(decl, k2)))

\* keys whose last declaration is one of the additional tokens
FromAdditional(decl, nStructured) ==
    {k \in KeysIn(decl) : LastOf(Idx(decl, k)) > nStructured}

NoRepeat(seq) == \A i, j \in 1..Len(seq) : seq[i] = seq[j] => i = j

(***************************************************************************)
(* Claims                                                                  *)
(***************************************************************************)

\* C1: after any sequence of setRememberedValue calls, saveState followed by
\* loadState on the same storage path returns a map with the same keys and
\* the same values as the map that was saved.
C1_RoundTrip ==
    s_pc = "loaded" => (s_loaded.ok /\ s_loaded.state = s_saved)

\* C1 witness: a map changed by two set calls, holding a string that reads
\* like a JSON scalar, has been saved and loaded back.
C1_Witness ==
    /\ s_pc = "loaded"
    /\ s_sets = 2
    /\ \E k \in DOMAIN s_saved : s_saved[k] = Str("true")
    /\ s_loaded.state = s_saved

C3_UniqueAfterAssembly ==
    Assembled =>
        /\ \A k \in KeysIn(OutSettings) : Cardinality(Idx(OutSettings, k)) = 1
        /\ \A f \in KeysIn(OutParameters) : Cardinality(Idx(OutParameters, f)) = 1
        /\ NoRepeat(command.actions)

(***************************************************************************)
(* Reading the decision point settled last                                 *)
(***************************************************************************)
Settled == step.point # "none"

\* the four decision points
DecisionPoints == {"xcworkspace", "scheme", "configuration", "destination"}

\* the step went through a smart picker with nothing given explicitly
SmartOnly == Settled /\ step.smart /\ ~step.explicit

\* option x is what the remembered value names
IsTheRemembered(x) ==
    /\ IsRemembered(step.remembered)
    /\ IF step.point = "destination"
       THEN matchesRemembered(x, step.remembered.v)
       ELSE x = step.remembered.v

\* the remembered value names one of the options that can be auto-selected
RememberedAvailable ==
    \E i \in 1..Len(step.supported) : IsTheRemembered(step.supported[i])

\* the remembered destination is enumerated, but only as unsupported
RememberedOnlyUnsupported ==
    /\ Settled /\ step.point = "destination" /\ step.smart
    /\ \E i \in 1..Len(step.avail) : IsTheRemembered(step.avail[i])
    /\ ~RememberedAvailable

\* the resolved value is the explicit one (a relative workspace path being
\* read from the workspace root)
ResolvedIsSupplied ==
    CASE step.point = "xcworkspace" ->
            \/ step.value = step.supplied[1]
            \/ ~isAbsolute(step.supplied[1])
               /\ step.value = pathJoin(WorkspacePath, step.supplied[1])
      [] step.point = "destination" ->
            IF Truthy(step.supplied.id)
            THEN matchDestinationId(step.value, step.supplied.id[1])
            ELSE matchDestinationName(step.value, step.supplied.name[1])
      [] OTHER -> step.value = step.supplied[1]

\* the picker was shown and closed without a selection
Aborted == Settled /\ ~step.ok /\ step.shown /\ step.error = "Selection cancelled"

\* what cli-state.json holds now, as the next run would load it
FileState == loadState(runtime.file)

(***************************************************************************)
(* Claims C4 - C10                                                         *)
(***************************************************************************)
\* C4: a decision point whose value is given explicitly never calls
\* setRememberedValue for its key, and a run in which all four are explicit
\* leaves the dirty flag unset and the state file unwritten.
C4_ExplicitNeverStores ==
    /\ (Settled /\ step.explicit) => ~step.stored
    /\ explicitAt = DecisionPoints =>
          (~runtime.stateDirty /\ runtime.writes = 0 /\ runtime.file = file0)

\* C5: a decision point given an explicit value resolves to that value
\* whatever is remembered: workspace, scheme and configuration are the
\* supplied ones and the destination matches the supplied id or name.
C5_ExplicitWins ==
    (Settled /\ step.explicit /\ step.ok) => ResolvedIsSupplied

\* C6 (as stated): smart destination resolution never returns a destination
\* that matches the remembered id and is only in the unsupported partition
\* unless the picker was shown, for every size of the two partitions.
C6_UnsupportedNeverSilently ==
    (RememberedOnlyUnsupported /\ step.ok /\ IsTheRemembered(step.value))
        => step.shown

\* C6 (amended): with more than one destination enumerated, a remembered
\* destination that is only unsupported is never auto-selected: the picker is
\* spawned, and the destination is returned only if the picker was shown; with
\* one destination enumerated, that destination is returned without the picker.
C6_UnsupportedFallsThrough ==
    RememberedOnlyUnsupported =>
        IF Len(step.avail) > 1
        THEN /\ step.ok => (step.shown /\ "cli.destination.id" \in DOMAIN picked)
             /\ ~step.ok => step.error \in {"Selection cancelled",
                                            "fzf is required but not installed",
                                            "Failed to parse fzf selection"}
        ELSE step.ok /\ ~step.shown /\ step.value = step.avail[1]

C6_Witness ==
    /\ RememberedOnlyUnsupported
    /\ Len(step.avail) > 1
    /\ Len(step.supported) = 0
    /\ step.ok /\ step.shown /\ IsTheRemembered(step.value)

\* C7: with no explicit value, more than one option and the remembered value
\* among the available (for destination: supported) options, resolution
\* returns the remembered value and the picker is not invoked.
C7_RememberedAutoSelected ==
    (SmartOnly /\ Len(step.avail) > 1 /\ RememberedAvailable)
        => (step.ok /\ ~step.shown /\ IsTheRemembered(step.value))

\* C8: when the picker is aborted at a decision point the run fails in the
\* ordinary way (message on the error stream, exit status 1) and the state
\* file is what it was at process start, whatever was picked before.
C8_AbortKeepsFile ==
    Aborted =>
        /\ pc = "failed"
        /\ exitCode = 1
        /\ stderr = ErrorLine("Selection cancelled")
        /\ runtime.file = file0

C8_Witness ==
    /\ Aborted
    /\ step.point = "destination"
    /\ {"cli.xcworkspace", "cli.scheme"} \subseteq DOMAIN picked
    /\ runtime.stateDirty
    /\ file0.exists

\* C9: a choice made in the picker is stored under the decision point's key
\* (for destination: its id) with the dirty flag set, and once
\* savePersistentState has returned the state file holds that key and value.
C9_PickIsRemembered ==
    \A k \in DOMAIN picked :
        /\ k \in DOMAIN runtime.persistentState
        /\ runtime.persistentState[k] = picked[k]
        /\ ~flushed => runtime.stateDirty
        /\ flushed => (/\ FileState.ok
                       /\ k \in DOMAIN FileState.state
                       /\ FileState.state[k] = picked[k])

C9_Witness ==
    /\ flushed
    /\ file0.exists
    /\ "cli.destination.id" \in DOMAIN picked
    /\ picked["cli.destination.id"] = Str(Sim2.id)
    /\ FileState.state # loadState(file0).state

\* C10: the state file is written at most once in a run, and only if
\* setRememberedValue or removeRememberedValue was called in that run.
C10_AtMostOneWrite ==
    /\ runtime.writes <= 1
    /\ runtime.writes = 1 => runtime.setKeys # {}
    /\ runtime.setKeys = {} => runtime.file = file0

C10_Witness ==
    /\ pc = "done"
    /\ runtime.writes = 1
    /\ runtime.file # file0

(***************************************************************************)
(* Claims C11 - C20                                                        *)
(***************************************************************************)
\* the command switch of run has been entered (part_001:342)
CommandStarted ==
    \/ pc = "execute"
    \/ pc = "done" /\ Settled
    \/ pc = "failed" /\ stderr = ErrorLine("Command failed")

\* every choice made in fzf during this run is in cli-state.json
PicksOnDisk ==
    /\ FileState.ok
    /\ \A k \in DOMAIN picked :
          k \in DOMAIN FileState.state /\ FileState.state[k] = picked[k]

\* C11: the state file is written only after the four decision points are
\* resolved and before the command is executed, so what was picked is on disk
\* even when the command then fails.
C11_SavedBeforeCommand ==
    /\ (runtime.writes > 0 \/ runtime.file # file0 \/ flushed)
          => (step.point = "destination" /\ step.ok /\ flushed)
    /\ CommandStarted => (flushed /\ ~runtime.stateDirty /\ PicksOnDisk)

C11_Witness ==
    /\ pc = "failed"
    /\ stderr = ErrorLine("Command failed")
    /\ runtime.writes = 1
    /\ DOMAIN picked = {"cli.xcworkspace", "cli.scheme", "cli.configuration",
                        "cli.destination.id"}
    /\ PicksOnDisk

\* something is remembered for the key, and it is not an option that can be
\* auto-selected now
Stale == SmartOnly /\ IsRemembered(step.remembered) /\ ~RememberedAvailable

\* the ways a spawned fzf makes fzfPick reject
PickerErrors ==
    {"Selection cancelled", "fzf is required but not installed",
     "Failed to parse fzf selection"}

\* the pc that follows a decision point
NextPc(point) ==
    CASE point = "xcworkspace" -> "scheme"
      [] point = "scheme" -> "configuration"
      [] point = "configuration" -> "destination"
      [] OTHER -> "save"

\* the run went on after the settled decision point: it stands at the next
\* one, or past the last one with no failure but the command's own
Continued ==
    \/ pc = NextPc(step.point) /\ exitCode = 0
    \/ /\ step.point = "destination" /\ flushed
       /\ exitCode = 1 => stderr = ErrorLine("Command failed")

\* what a choice at the settled decision point is remembered as
StepPayload == IF step.point = "destination" THEN step.value.id ELSE step.value

\* several options and no shortcut: only fzf can decide
NeedsPicker ==
    /\ Len(step.avail) > 1
    /\ ~(step.point = "configuration" /\ Len(step.avail) = 2
         /\ Has(step.avail, <<"Debug">>) /\ Has(step.avail, <<"Release">>))

NothingAvailable == SmartOnly /\ Len(step.avail) = 0

\* the run ended with the decision point's error on the error stream
FailedAtStep ==
    /\ ~step.ok
    /\ pc = "failed"
    /\ exitCode = 1
    /\ stderr = ErrorLine(step.error)

\* C13 (as stated): at each of the four decision points an empty set of
\* options, with no explicit value, ends the run with a failure.
C13_EmptyAlwaysFails == NothingAvailable => FailedAtStep

\* C13 (amended): with no explicit value and no options, workspace and scheme
\* resolution fail the run ("No xcode workspaces found", "No schemes found");
\* configuration resolution returns Debug without the picker and without
\* storing it, whatever is remembered; the destinations are never empty, the
\* Mac being always listed.
C13_EmptyOptions ==
    /\ NothingAvailable =>
          IF step.point = "configuration"
          THEN /\ step.ok /\ ~step.shown /\ ~step.stored
               /\ step.value = <<"Debug">>
               /\ Continued
          ELSE /\ FailedAtStep /\ ~step.shown /\ ~step.stored
               /\ step.point \in {"xcworkspace", "scheme"}
               /\ step.error = IF step.point = "scheme" THEN "No schemes found"
                               ELSE "No xcode workspaces found"
    /\ (Settled /\ step.point = "destination" /\ step.smart) => Len(step.avail) > 0

C13_Witness ==
    /\ NothingAvailable
    /\ step.point = "configuration"
    /\ IsRemembered(step.remembered)
    /\ step.ok
    /\ pc = "destination"

\* no explicit value and exactly one option
SingleOption == SmartOnly /\ Len(step.avail) = 1

\* C14: with no explicit value and exactly one available option, each of the
\* four resolvers returns that option without invoking the picker, whatever
\* is remembered for the key, and the run goes on.
C14_SingleOptionAutoSelected ==
    SingleOption =>
        /\ step.ok
        /\ ~step.shown
        /\ step.value = step.avail[1]
        /\ Continued

C14_Witness ==
    /\ SingleOption
    /\ Stale
    /\ step.point = "xcworkspace"
    /\ step.value = step.avail[1]
    /\ pc = "scheme"

\* configuration resolution, nothing explicit, nothing remembered, and the
\* project has exactly the configurations Debug and Release
DebugReleaseOnly ==
    /\ SmartOnly
    /\ step.point = "configuration"
    /\ ~IsRemembered(step.remembered)
    /\ Len(step.avail) = 2
    /\ {step.avail[1], step.avail[2]} = {<<"Debug">>, <<"Release">>}

\* C15: when the available configurations are exactly Debug and Release, no
\* configuration is given explicitly and nothing is remembered, configuration
\* resolution returns Debug without invoking the picker.
C15_DebugReleaseShortcut ==
    DebugReleaseOnly =>
        /\ step.ok
        /\ step.value = <<"Debug">>
        /\ ~step.shown

C15_Witness ==
    /\ DebugReleaseOnly
    /\ step.avail = <<<<"Release">>, <<"Debug">>>>
    /\ step.value = <<"Debug">>
    /\ pc = "destination"

\* CliRuntimeContext.create has returned: persistentState is what loadState
\* gave for the file the run started with
Created == pc = "xcworkspace" /\ step = NoStep

\* CliRuntimeContext.create has thrown what loadState threw
CreateFailed == pc = "failed" /\ step = NoStep

\* the keys the resolvers read
RememberedKeys ==
    {"cli.xcworkspace", "cli.scheme", "cli.configuration", "cli.destination.id"}

NothingRemembered ==
    \A k \in RememberedKeys :
        ctxGetRememberedValue(runtime, k) = [t |-> "undefined", v |-> ""]

\* C16 (as stated): loadState returns the empty map if and only if the state
\* file is absent; a file that does not parse makes it fail.
C16_EmptyIffAbsent ==
    /\ Created => (runtime.persistentState = EmptyMap <=> ~file0.exists)
    /\ (file0 = CorruptFile /\ pc # "start") => (CreateFailed \/ pc = "done")

\* C16 (amended): loadState returns the empty map when the state file is
\* absent, and then getRememberedValue returns absent for every key; when the
\* file exists and parses it returns the parsed object, which is the empty map
\* for a file holding {}; when the file exists and does not parse it fails
\* with an error and no map is returned.
C16_LoadState ==
    /\ Created =>
          /\ file0 # CorruptFile
          /\ ~file0.exists => (runtime.persistentState = EmptyMap /\ NothingRemembered)
          /\ file0.exists => runtime.persistentState = JSONparse(file0.text)
          /\ file0 = FileOf(<<>>) => (runtime.persistentState = EmptyMap /\ NothingRemembered)
    /\ (file0 = CorruptFile /\ pc # "start") =>
          \/ CreateFailed /\ exitCode = 1 /\ runtime.persistentState = EmptyMap
          \/ pc = "done" /\ step = NoStep

C16_Witness == Created /\ file0 = FileOf(<<>>) /\ runtime.persistentState = EmptyMap

\* C17: when the state file exists but fails to parse, the run treats the
\* selection memory as empty and goes on to the resolution of the workspace
\* file instead of terminating.
C17_CorruptRecovers ==
    (file0 = CorruptFile /\ pc \notin {"start", "done"}) =>
        /\ ~CreateFailed
        /\ exitCode = 1 => Settled

\* both invocations store in one directory, both loaded before any write, and
\* both have written and exited
BothSaved ==
    /\ \A i \in Invocations : v_pc[i] = "exited" /\ v_seen[i] = 0
    /\ v_path[1] = v_path[2]
    /\ Len(writers) = 2

\* the keys only the invocation that saved first has changed
OnlyFirstChanged == v_ctx[writers[1]].setKeys \ v_ctx[writers[2]].setKeys

\* C18: when two invocations against the same storage path both load the
\* state before either saves and both then save, the final file is exactly the
\* in-memory map of the invocation that saved last: a key changed only by the
\* earlier saver ends with the value the later saver had loaded.
C18_LastWriterWins ==
    BothSaved =>
        LET final == loadState(disk[v_path[1]])
        IN  /\ final.ok
            /\ final.state = v_ctx[writers[2]].persistentState
            /\ \A k \in OnlyFirstChanged :
                  getRememberedValue(final.state, k)
                      = getRememberedValue(v_loaded[writers[2]], k)

C18_Witness ==
    /\ BothSaved
    /\ v_root[1] = v_root[2]
    /\ \E k \in OnlyFirstChanged :
          /\ getRememberedValue(v_ctx[writers[1]].persistentState, k) = Str(<<"Widget">>)
          /\ getRememberedValue(loadState(disk[v_path[1]]).state, k) = Str(<<"Release">>)

\* what scheme resolution makes of a remembered map when two schemes are
\* available and the picker, if it is shown, is aborted
SchemeResolution(state) ==
    LET r == pickSchemeSmart(NewContext(NoFile, state),
                             <<<<"MyApp">>, <<"Widget">>>>, FzfAborted)
    IN  [ok |-> r.ok, value |-> r.value, shown |-> r.shown]

\* C19: selection memory is per workspace: what an invocation loads, and the
\* scheme it resolves from it, is what its storage held at the start whenever
\* the other invocation runs against a different workspace root, also when a
\* .sweetpad directory cannot be created.
C19_PerWorkspace ==
    \A i \in Invocations :
        (v_pc[i] # "start" /\ v_root[1] # v_root[2]) =>
            /\ v_path[1] # v_path[2] \/ v_pc[3 - i] = "start"
            /\ v_loaded[i] = loadState(disk0[v_path[i]]).state
            /\ SchemeResolution(v_loaded[i])
                   = SchemeResolution(loadState(disk0[v_path[i]]).state)

\* the second run agrees with the first on the decision points in K that it
\* has resolved so far
SameAsFirst(K) == \A k \in DOMAIN a_res \cap K : a_res[k] = a_first.res[k]

DestinationByName ==
    /\ Truthy(a_env.destinationName)
    /\ Len(filterByName(a_env.destinations, a_env.destinationName[1])) = 1

\* the destination the first run resolved is returned again without a picker:
\* it is supported by the scheme, or the only one there is, or named by a flag
FirstDestinationReusable ==
    \/ Has(splitSupportedDestinatinos(a_env.destinations,
                                      a_env.supportedPlatforms).supported,
           a_first.res["destination"])
    \/ Len(a_env.destinations) = 1
    \/ DestinationByName

FileState0 == loadState(file0)

\* C21: across a complete run (load, resolutions, save) every key of the
\* state file other than the keys set in this run has the same value after
\* the save as before the load, no other key appears, and a key the pickers
\* do not know is neither dropped nor altered.
C21_OtherKeysKept ==
    flushed =>
        /\ FileState0.ok /\ FileState.ok
        /\ \A k \in DOMAIN FileState0.state \ runtime.setKeys :
              k \in DOMAIN FileState.state /\ FileState.state[k] = FileState0.state[k]
        /\ DOMAIN FileState.state \subseteq DOMAIN FileState0.state \cup runtime.setKeys
        /\ runtime.setKeys \subseteq RememberedKeys
        /\ runtime.writes = 0 => runtime.file = file0

C21_Witness ==
    /\ flushed
    /\ runtime.writes = 1
    /\ runtime.setKeys = {"cli.scheme"}
    /\ DOMAIN FileState.state = RememberedKeys \cup {"editor.theme"}
    /\ FileState.state["cli.scheme"] = Str(<<"Widget">>)
    /\ FileState.state["cli.configuration"] = Str(<<"Release">>)
    /\ FileState.state["editor.theme"] = JsonTrue

\* the map given to the last call, as it was when the call was made
GivenMap == h_last.before[h_last.input]

\* the map the last call returned
ReturnedMap == h_heap[h_last.output]

\* C22: setRememberedValue and removeRememberedValue never mutate the map
\* they are given: after the call the given map, and every other map held,
\* has its previous keys and values, and the returned map is a distinct
\* object that differs from the given one at the given key only.
C22_GivenMapUntouched ==
    h_last.op # "none" =>
        /\ \A i \in 1..Len(h_last.before) : h_heap[i] = h_last.before[i]
        /\ h_last.output # h_last.input
        /\ h_last.output > Len(h_last.before)
        /\ DOMAIN ReturnedMap \ {h_last.key} = DOMAIN GivenMap \ {h_last.key}
        /\ \A k \in DOMAIN GivenMap \ {h_last.key} : ReturnedMap[k] = GivenMap[k]
        /\ IF h_last.op = "set"
           THEN h_last.key \in DOMAIN ReturnedMap
                /\ ReturnedMap[h_last.key] = h_last.value
           ELSE h_last.key \notin DOMAIN ReturnedMap

C22_Witness ==
    /\ h_last.op = "set"
    /\ h_n = 2
    /\ h_last.key \in DOMAIN GivenMap
    /\ GivenMap[h_last.key] # ReturnedMap[h_last.key]
    /\ h_heap[h_last.input] = GivenMap

\* a KEY=VALUE token
IsSettingToken(tok) == ~startsWithDash(tok) /\ includesEq(tok)

\* flags, each followed by its value if it has one
IsParameterSection(toks) ==
    \A p \in 1..Len(toks) :
        startsWithDash(toks[p]) \/ (p > 1 /\ startsWithDash(toks[p - 1]))

\* C23: the assembled vector starts with the program name, followed by all
\* build-setting tokens, then all parameter tokens (flag, optional value),
\* then all action verbs, entries contributed by additional tokens included.
C23_SectionOrder ==
    Assembled =>
        /\ b_parts[1] = <<"xcodebuild">>
        /\ \E i \in 1..Len(b_parts) : \E j \in i..Len(b_parts) :
              /\ i - 1 = Len(command.buildSettings)
              /\ Len(b_parts) - j = Len(command.actions)
              /\ \A p \in 2..i : IsSettingToken(b_parts[p])
              /\ IsParameterSection(SubSeq(b_parts, i + 1, j))
              /\ \A p \in (j + 1)..Len(b_parts) : b_parts[p] \in ActionVerbs

C23_Witness ==
    /\ b_pc = "built"
    /\ b_in.additionalArgs = << <<"clean">>, <<"ARCHS", "=", "x86_64">> >>
    /\ b_in.shouldBuild /\ ~b_in.shouldClean /\ b_in.debug
    /\ b_parts[Len(b_parts)] = <<"clean">>
    /\ <<"ARCHS", "=", "x86_64">> \in {b_parts[p] : p \in 2..4}

\* the additional tokens of scenario D
ScenarioD == << <<"-", "quiet">>, <<"ARCHS", "=", "arm64">>, <<"clean">> >>

\* the places of the vector that hold tok
PlacesOf(tok) == {p \in 1..Len(b_parts) : b_parts[p] = tok}

\* C24: for the additional tokens -quiet, ARCHS=arm64, clean the flag -quiet
\* is assembled as a bare option, ARCHS=arm64 as a build setting in the
\* build-settings section, clean as an action, each exactly once.
C24_ScenarioD ==
    (Assembled /\ b_in.additionalArgs = ScenarioD) =>
        /\ \E p \in 1..Len(command.parameters) :
              command.parameters[p] = [arg |-> <<"-", "quiet">>, value |-> NO_VALUE]
        /\ \E p \in 1..Len(command.buildSettings) :
              command.buildSettings[p] = [key |-> <<"ARCHS">>, value |-> <<"arm64">>]
        /\ \E p \in 1..Len(command.actions) : command.actions[p] = <<"clean">>
        /\ \A i \in 1..Len(ScenarioD) : Cardinality(PlacesOf(ScenarioD[i])) = 1
        /\ \A p \in PlacesOf(<<"ARCHS", "=", "arm64">>) :
              p <= 1 + Len(command.buildSettings)

\* additional token i follows a flag and is taken as its value
ConsumedAsValue(args, i) ==
    i > 1 /\ startsWithDash(args[i - 1]) /\ ~startsWithDash(args[i])

\* additional token i declares a build setting
DeclaresSetting(args, i) == IsSettingToken(args[i]) /\ ~ConsumedAsValue(args, i)

\* no later additional token declares the key of token i again
LastOfItsKey(args, i) ==
    \A j \in (i + 1)..Len(args) :
        DeclaresSetting(args, j) => TokenKV(args[j]).key # TokenKV(args[i]).key

\* C25: an additional token that contains "=" and does not start with "-",
\* and is not taken as a flag's value, becomes a build setting whose key is
\* the text before the first "=" and whose value is everything after it, so
\* that the rendered KEY=VALUE token is the original token, also when the
\* value holds an "=" itself.
C25_SplitOnFirstEq ==
    Assembled =>
        \A i \in 1..Len(b_in.additionalArgs) :
            (DeclaresSetting(b_in.additionalArgs, i)
                /\ LastOfItsKey(b_in.additionalArgs, i)) =>
                \E p \in 1..Len(command.buildSettings) :
                    /\ command.buildSettings[p] = TokenKV(b_in.additionalArgs[i])
                    /\ b_parts[p + 1] = b_in.additionalArgs[i]

\* additional token i is none of flag, flag value, KEY=VALUE, action
Unrecognized(args, i) ==
    /\ ~startsWithDash(args[i])
    /\ ~includesEq(args[i])
    /\ args[i] \notin {<<"clean">>, <<"build">>, <<"test">>}
    /\ ~ConsumedAsValue(args, i)

C27_NoSentinel ==
    Assembled => \A p \in 1..Len(b_parts) : b_parts[p] # <<"__NO_VALUE__">>

C27_Witness ==
    /\ b_pc = "built"
    /\ b_in.allowProvisioningUpdates
    /\ b_in.additionalArgs = << <<"-", "quiet">>, <<"__NO_VALUE__">> >>
    /\ \E q \in 1..Len(command.parameters) :
          command.parameters[q] = [arg |-> <<"-", "quiet">>, value |-> <<"__NO_VALUE__">>]
    /\ b_parts[Len(b_parts) - Len(command.actions)] = <<"-", "quiet">>

\* the place of a step in the order workspace, scheme, configuration,
\* destination, (save,) command assembly, execution
PlaceOf(s) == CHOOSE i \in 1..Len(RunSteps) : RunSteps[i] = s

\* the steps in the order in which they were started
StartOrder ==
    SelectSeq(q_log, LAMBDA e : e[2] \in {"spawn", "start"})

\* C28: resolution and execution are strictly sequential in the order
\* workspace, scheme, configuration, destination, command assembly, execution:
\* a step starts only after the previous one has produced its value, and at
\* no time are two interactive pickers active at once.
C28_StrictlySequential ==
    /\ Cardinality(q_active) <= 1
    /\ Cardinality(q_started \ q_produced) <= 1
    /\ \A s \in q_started : \A i \in 1..(PlaceOf(s) - 1) : RunSteps[i] \in q_started
    /\ \A s \in q_started \ q_produced :
          \A i \in 1..(PlaceOf(s) - 1) : RunSteps[i] \in q_produced
    /\ \A n \in 1..Len(StartOrder) : StartOrder[n][1] = RunSteps[n]

C28_Witness ==
    /\ "execution" \in q_produced
    /\ Len(SelectSeq(q_log, LAMBDA e : e[2] = "picked")) = 4
    /\ q_active = {}

\* the launch on a device was reported as not successful
LaunchNotSuccessful == stdout = <<"Error launching app on device">>

\* C29: the exit status is 0 only when the requested command succeeded; every
\* failure the run surfaces (resolution failure, picker failure, toolchain
\* command exiting non-zero, launch on a device reported as not successful)
\* gives exit status 1 with a message on the error stream.
C29_ExitStatus ==
    /\ pc = "failed" => (exitCode = 1 /\ Len(stderr) = 2 /\ stderr[1] = "SweetPad CLI error: ")
    /\ (Settled /\ ~step.ok) => pc = "failed"
    /\ LaunchNotSuccessful => (exitCode = 1 /\ stderr # <<>>)
    /\ exitCode = 0 => stderr = <<>>

\* how many places of seq hold x
Occurrences(seq, x) == Cardinality({i \in 1..Len(seq) : seq[i] = x})

Members(seq) == {seq[i] : i \in 1..Len(seq)}

ItemValues == [i \in 1..Len(p_items) |-> p_items[i].value]

\* C30: for all destination lists and declared platform sets, the partition
\* used by destination resolution places every enumerated destination in
\* exactly one of supported / unsupported (nothing lost, nothing duplicated,
\* nothing invented), the items offered hold each destination once, and when
\* the declared set is non-empty every supported destination's platform tag
\* is a member of it.
C30_Partition ==
    /\ p_pc \in {"split", "offered", "failed"} =>
          /\ \A d \in Members(p_destinations) \cup Members(p_split.supported)
                                               \cup Members(p_split.unsupported) :
                Occurrences(p_split.supported, d) + Occurrences(p_split.unsupported, d)
                    = Occurrences(p_destinations, d)
          /\ (IsDef(p_platforms) /\ p_platforms[1] # {}) =>
                \A i \in 1..Len(p_split.supported) :
                    p_split.supported[i].platform \in p_platforms[1]
    /\ p_pc = "offered" =>
          \A d \in Members(p_destinations) \cup Members(ItemValues) :
                Occurrences(ItemValues, d) = Occurrences(p_destinations, d)

C30_Witness ==
    /\ p_pc = "offered"
    /\ IsDef(p_platforms)
    /\ Len(p_split.supported) > 0
    /\ Len(p_split.unsupported) > 0
    /\ Len(p_items) = Len(p_destinations)

(***************************************************************************)
(* Claims C31 - C39                                                        *)
(***************************************************************************)
\* a device of a family the code does not name was reported
UnknownFamilyListed ==
    \E i \in 1..Len(l_devices) : l_devices[i].deviceType \notin RecognizedDeviceTypes

\* C31: a physical device whose hardware family is none of the recognized
\* ones makes enumeration fail; it is never left out of a returned list.
C31_UnknownFamilyFails ==
    (UnknownFamilyListed /\ l_pc # "start") => l_pc = "failed"

IsSimulator(d) == d.platform = "iphonesimulator"

IsMac(d) == d.platform = "macosx"

\* the local machine, then simulators, then devices
MacSimulatorsDevices(destinations) ==
    /\ Len(destinations) > 0
    /\ destinations[1] = MyMac
    /\ \A i \in 2..Len(destinations) : ~IsMac(destinations[i])
    /\ \A i, j \in 2..Len(destinations) :
          (i < j /\ IsSimulator(destinations[j])) => IsSimulator(destinations[i])

\* C38: every list produced by listDestinations is non-empty with the local
\* machine first, then simulators, then devices; the failure
\* "No destinations found" is unreachable.
C38_NeverEmpty ==
    /\ l_pc \in {"listed", "offered"} => MacSimulatorsDevices(l_destinations)
    /\ l_error # "No destinations found"

C38_Witness ==
    /\ l_pc = "offered"
    /\ Len(l_destinations) > 2
    /\ IsSimulator(l_destinations[2])
    /\ ~IsSimulator(l_destinations[Len(l_destinations)])

\* the configuration step has resolved a value
ConfigurationResolved == Settled /\ step.point = "configuration" /\ step.ok

RECURSIVE ScanAsStated(_, _, _)
ScanAsStated(b, args, i) ==
    IF i > Len(args) THEN b
    ELSE IF startsWithDash(args[i])
    THEN IF i + 1 <= Len(args) /\ ~startsWithDash(args[i + 1])
         THEN ScanAsStated(addParameters(b, args[i], args[i + 1]), args, i + 2)
         ELSE ScanAsStated(addOption(b, args[i]), args, i + 1)
    ELSE ScanAsStated(scanArgs(b, <<args[i]>>, 1), args, i + 1)

\* C33: in the forward scan of the additional tokens, a token starting with
\* "-" whose next token exists and does not start with "-" becomes a
\* (flag, value) pair and both tokens are consumed; a token starting with "-"
\* that is last, or followed by a token starting with "-", becomes a bare
\* flag and only that token is consumed.
C33_FlagScan ==
    (b_pc = "merged" /\ Len(b_in.additionalArgs) > 0) =>
        command = dedup(ScanAsStated(structuredCommand(b_in), b_in.additionalArgs, 1))

\* C34: within one buildApp call the onBuildCompleted hook is invoked at most
\* once, and only after the toolchain invocation has completed successfully;
\* if the invocation fails the hook is not invoked.
C34_HookAfterSuccess ==
    /\ Occurrences(k_log, "onBuildCompleted") <= 1
    /\ \A i \in 1..Len(k_log) :
          k_log[i] = "onBuildCompleted" =>
              \E j \in 1..(i - 1) : k_log[j] = "close:0"
    /\ (Has(k_log, "close:65") \/ Has(k_log, "error") \/ Has(k_log, "prepare:failed"))
          => ~Has(k_log, "onBuildCompleted")
    /\ (k_pc = "done" /\ k_hook) => Has(k_log, "onBuildCompleted")

C34_Witness ==
    /\ k_pc = "done"
    /\ Has(k_log, "data")
    /\ Has(k_log, "onBuildCompleted")

\* run has returned or thrown
SeqTerminated == q_failed \/ q_produced = {RunSteps[i] : i \in 1..Len(RunSteps)}

\* the statement run is waiting at
SeqWaiting == q_started \ q_produced

\* a run that is not over waits at one statement at most, and a fzf child
\* that is alive belongs to that statement
SeqWaitsOnOwnChild ==
    ~SeqTerminated =>
        /\ Cardinality(SeqWaiting) <= 1
        /\ q_active \subseteq SeqWaiting
        /\ \A s \in SeqWaiting : s \in q_active \/ ~Has(q_log, <<s, "spawn">>)

\* C35: provided every external subprocess eventually exits, every run
\* eventually terminates, with exit status 0 or 1; no step waits on anything
\* other than the external process it started.
C35_Terminates ==
    /\ <>(SeqTerminated /\ SeqExitCode \in {0, 1})
    /\ [](SeqTerminated => (SeqExitCode = 1 <=> q_failed))
    /\ []SeqWaitsOnOwnChild

C35_Witness ==
    /\ SeqTerminated
    /\ SeqExitCode = 0
    /\ Has(q_log, <<"scheme", "picked">>)
    /\ Has(q_log, <<"execution", "returned">>)

\* the step changed the memory: setRememberedValue was called, or the dirty
\* flag was raised by it
MemoryTouched == Settled /\ step.stored

\* C36: selection memory is modified only as a consequence of an actual
\* picker invocation: a resolver that returns through a shortcut (single
\* option, Debug/Release pair, valid remembered value) calls no
\* setRememberedValue and does not set the dirty flag.
C36_OnlyPickerStores ==
    MemoryTouched => step.shown

\* the two entries before place i of the log, the nearer one first
Before(i) == <<IF i > 1 THEN m_log[i - 1] ELSE "", IF i > 2 THEN m_log[i - 2] ELSE "">>

\* wherever name is in the log, the entries before it are one of the pairs
IssuedAfter(name, pairs) ==
    \A i \in 1..Len(m_log) : m_log[i] = name => Before(i) \in pairs

\* C37: in runOniOSSimulator the simulator is looked up fresh; the boot
\* command is issued if and only if the simulator looked up is not booted;
\* onSimulatorBooted fires only after the boot command succeeded; open,
\* install and launch are executed in that order, each only after the one
\* before it succeeded, and a failing step prevents all later steps.
C37_SimulatorSteps ==
    /\ Has(m_log, "lookup") => m_isBooted = m_sim.now
    /\ (Has(m_log, "lookup") /\ m_pc # "boot") => (Has(m_log, "boot") <=> ~m_isBooted)
    /\ IssuedAfter("boot", {<<"lookup", "">>})
    /\ IssuedAfter("onSimulatorBooted", {<<"close:0", "boot">>})
    /\ IssuedAfter("open", {<<"lookup", "">>, <<"close:0", "boot">>,
                            <<"onSimulatorBooted", "close:0">>})
    /\ IssuedAfter("install", {<<"close:0", "open">>})
    /\ IssuedAfter("launch", {<<"close:0", "install">>})
    /\ \A i \in 1..Len(m_log) :
          m_log[i] \in {"close:65", "error", "lookup:failed"} => i = Len(m_log)
    /\ \A name \in {"lookup", "boot", "open", "install", "launch", "onSimulatorBooted"} :
          Occurrences(m_log, name) <= 1
    /\ m_pc = "done" => Before(Len(m_log) + 1) = <<"close:0", "launch">>

C37_Witness ==
    /\ m_pc = "done"
    /\ m_sim.listed /\ ~m_sim.now
    /\ Has(m_log, "boot")
    /\ Has(m_log, "onSimulatorBooted")

\* invocation i has its context
HasContext(i) == v_pc[i] \in {"run", "exited"}

\* since invocation i loaded its state, nobody else has written its file
NoOtherWriter(i) ==
    \A n \in (v_seen[i] + 1)..Len(writers) :
        writers[n] = i \/ v_path[writers[n]] # v_path[i]

\* a context that is not dirty holds what its state file holds
CleanMeansOnDisk ==
    \A i \in Invocations :
        (HasContext(i) /\ NoOtherWriter(i) /\ ~v_ctx[i].stateDirty) =>
            /\ loadState(disk[v_path[i]]).ok
            /\ v_ctx[i].persistentState = loadState(disk[v_path[i]]).state

\* a step that changes the map of a context leaves the context dirty
ChangeSetsDirty ==
    \A i \in Invocations :
        (HasContext(i) /\ v_ctx'[i].persistentState # v_ctx[i].persistentState)
            => v_ctx'[i].stateDirty

\* a step that clears the dirty flag has written the map to the state file
OnlySaveClears ==
    \A i \in Invocations :
        (HasContext(i) /\ v_ctx[i].stateDirty /\ ~v_ctx'[i].stateDirty) =>
            /\ v_ctx'[i].writes = v_ctx[i].writes + 1
            /\ v_ctx'[i].persistentState = v_ctx[i].persistentState
            /\ loadState(disk'[v_path[i]]).state = v_ctx[i].persistentState

\* C39: in every reachable state of a CliRuntimeContext (absent other
\* writers to the file), if the dirty flag is false the in-memory persistent
\* state equals the state file content as last loaded or saved by this
\* context; every operation that changes the in-memory persistent state sets
\* the dirty flag, and only a completed save clears it.
C39_DirtyFlag ==
    /\ []CleanMeansOnDisk
    /\ [][ChangeSetsDirty /\ OnlySaveClears]_vars

C39_Witness ==
    /\ v_pc[1] = "exited"
    /\ NoOtherWriter(1)
    /\ v_ctx[1].writes = 1
    /\ ~v_ctx[1].stateDirty
    /\ v_ctx[1].persistentState # v_loaded[1]
    /\ v_ctx[1].setKeys = ShareKeys

====
